---------------------------- MODULE Spec2Model ----------------------------
(***************************************************************************)
(* A model of the vidgen scene-to-video pipeline:                          *)
(*   - vidgen/compiler.py   compile_video and its helpers                  *)
(*   - vidgen/ttsgen.py     the duration reconciler and the narration track*)
(*   - vidgen/pipeline.py   Pipeline.run and its stages                    *)
(*   - webui/backend/job_manager.py   a job running a Pipeline             *)
(*                                                                         *)
(* Time is an integer number of ticks of 0.1 ms (10000 ticks = 1 s), so    *)
(* that the "%.3f" formatting of durations and round(x, 1) are real         *)
(* roundings and not the identity.                                         *)
(***************************************************************************)
EXTENDS Integers, Sequences, FiniteSets, TLC

VARIABLES
    \* ---- shared by the pipeline and the compiler
    scenes,          \* Pipeline._scenes / the scenes argument: Seq of Scene
    media_paths,     \* MediaPathMap: scene index -> "png" | "mp4"
    tmpdirs,         \* the temporary directories that exist on disk
    \* ---- compile_video
    cpc,             \* position inside compile_video
    ci,              \* loop position of "for scene in scenes"
    clip_paths,      \* the clips appended so far (scene index of each)
    clip_len,        \* real duration of each encoded clip
    skip_notes,      \* scene indices with a "Skipping scene" notification
    clip_durations,  \* local of _concat_with_xfade: probed durations
    offsets,         \* local of _concat_with_xfade: xfade offsets
    assembly,        \* which assembly path produced merged.mp4
    timeline_len,    \* duration of merged.mp4 as assembled
    merged_len,      \* duration of the file `merged` points to
    narration,       \* duration of the narration track, or NoTrack
    music,           \* TRUE when a background music file is supplied
    extend_try,      \* outcome of the freeze-extend step
    mixer_video_len, \* duration of the video handed to the audio mixer
    mix_path,        \* which mixer command produced final.mp4
    final_video_len, \* duration of the video stream of the output file
    final_audio_len, \* duration of the audio stream of the output file
    \* ---- sync_scene_durations_to_narration
    spc,             \* position inside the reconciler
    si,              \* loop position of "for scene in scenes"
    sync_pass,       \* how many times the reconciler has been entered
    speech,          \* per scene of this pass: measured speech_dur, or TtsRaised
    speech_before,   \* the same, of the previous pass
    declared,        \* the scene durations before the first pass
    first_result,    \* the scene durations after the first pass
    \* ---- generate_narration_track
    npc,             \* position inside generate_narration_track
    ni,              \* loop position of "for i, (text, dur) in enumerate(...)"
    segments,        \* scene_wavs: per scene its speech, trim_dur and length
    \* ---- Pipeline
    pc,              \* position of the controller thread inside Pipeline.run
    cancelled,       \* Pipeline._cancelled (a threading.Event)
    cfg,             \* use_placeholders, config.hf_token, config.gemini_api_key
    self_tmpdir,     \* TRUE when Pipeline._tmpdir names the run's directory
    ii,              \* step_generate_images: loop position
    vi,              \* step_generate_videos: loop position in video_scenes
    routed,          \* step_generate_videos: the routing agent's answer for
                     \* the latest scene ("chosen"), "raise", or NoChoice
    veo_jobs,        \* scene indices with a pending asynchronous operation
    hf_futures,      \* scene index -> "running" | "done" | "failed"
    joined,          \* futures the as_completed loop has consumed
    round_todo,      \* poll loop: jobs still to poll in this round
    done_keys,       \* poll loop: done_keys of this round
    poll_round,      \* number of poll rounds started
    last_poll_round, \* round of the latest poll of a job
    cancel_round,    \* poll round during which cancel() was called, or NoRound
    injected,        \* TRUE once inject_scenes has been called
    progress,        \* progress/log messages that name a scene: <<kind, index>>
    \* ---- _scene_to_clip
    encodes,         \* encoder runs of the latest call: <<command, -t, outcome>>
    \* ---- _concat_with_xfade
    renders,         \* assembly renders: <<command, clips, outcome>>
    \* ---- JobManager (web backend)
    job_state,       \* job["state"], or "none" when there is no job
    job_status,      \* the terminal "status" message pushed to the stream
    job_pipeline,    \* TRUE when job["_pipeline"] holds the Pipeline
    \* ---- generate_video / generate_image
    gpc,             \* position inside the generator function
    gen_fn,          \* "generate_video" | "generate_image"
    gen_thread,      \* the thread that executes it: "controller" | "pool"
    gen_model,       \* position in the list of models
    gen_attempt,     \* the loop variable "attempt"
    gen_calls,       \* backend calls made: <<model, attempt, outcome>>
    gen_sleeps,      \* the time.sleep arguments, in ticks
    gen_raised,      \* what the function raised: <<type, message>>, or NoRaise
    cb_log,          \* progress_cb calls: <<thread, kind>>
    \* ---- review_and_refine
    rpc,             \* position inside review_and_refine
    max_iterations,  \* its argument
    iteration,       \* the loop variable
    best_scenes,     \* which list best_scenes is: 0 the argument, k the k-th
                     \* list refine_story returned
    best_review,     \* <<list reviewed, score>>, or NoReview
    reviews,         \* the reviews made, in order: <<list reviewed, score>>
    refiner_calls,   \* number of calls of refine_story
    \* ---- scriptgen: generate_script, parse_user_story, parse_markdown_story
    scpc,             \* position inside the function
    script_fn,       \* the function called
    script_in,       \* its input: template scenes, text lines or sections
    script_i,        \* how many input items the loop has taken
    total_duration,  \* generate_script: the running total, ticks
    script_out       \* the list "scenes" being built, then returned

compile_vars == <<cpc, ci, clip_paths, clip_len, skip_notes, clip_durations,
                  offsets, assembly, timeline_len, merged_len, extend_try,
                  mixer_video_len, mix_path, final_video_len, final_audio_len,
                  encodes, renders>>

track_vars == <<npc, ni, segments>>

sync_vars == <<spc, si, sync_pass, speech, speech_before, declared,
               first_result, track_vars>>

job_vars == <<job_state, job_status, job_pipeline>>

run_vars == <<pc, cancelled, cfg, self_tmpdir, ii, vi, routed, veo_jobs, hf_futures,
              joined, round_todo, done_keys, poll_round, last_poll_round,
              cancel_round, injected, progress, job_vars>>

gen_vars == <<gpc, gen_fn, gen_thread, gen_model, gen_attempt, gen_calls,
              gen_sleeps, gen_raised, cb_log>>

\* The functions modelled on their own, outside a run.
review_vars == <<rpc, max_iterations, iteration, best_scenes, best_review,
                 reviews, refiner_calls>>

script_vars == <<scpc, script_fn, script_in, script_i, total_duration,
                 script_out>>

unit_vars == <<gen_vars, review_vars, script_vars>>

vars == <<scenes, media_paths, tmpdirs, narration, music, compile_vars,
          sync_vars, run_vars, unit_vars>>

-----------------------------------------------------------------------------
(* Bounds of the model *)

MaxScenes == 3
MaxPollRounds == 2
MaxRunScenes == 2

-----------------------------------------------------------------------------
(* Program constants, in ticks of 0.1 ms *)

CROSSFADE_DURATION == 8000
OFFSET_FLOOR == 1000
EXTEND_THRESHOLD == 1000
FREEZE_MIN_EXTRA == 500
NARRATION_LEAD_IN == 6000
NARRATION_PADDING_AFTER == 10000

NoTrack == -1
NoFile == -1
TtsRaised == -1
NoRound == -1
TimedOut == -1

-----------------------------------------------------------------------------
(* Helpers *)

Max(a, b) == IF a >= b THEN a ELSE b
Min(a, b) == IF a <= b THEN a ELSE b

RECURSIVE SumSeq(_)
SumSeq(s) == IF s = <<>> THEN 0 ELSE Head(s) + SumSeq(Tail(s))

\* "%.3f" % t : t rounded to a whole millisecond (10 ticks)
Fmt3(t) == ((t + 5) \div 10) * 10

\* class Scene
Scene(i, d, m) == [index |-> i, duration |-> d, media_type |-> m]

-----------------------------------------------------------------------------
(* compile_video : inputs *)

\* Lengths of the animated source videos a scene's .mp4 can have (4 s and
\* 3.9504 s): _scene_to_clip reads a video without -loop, so the clip ends
\* with the source when the source is shorter than scene.duration.
VideoSourceLengths == {40000, 39504}

\* Scene durations of the examined scene lists, by scene index:
\*   1: 8 s, 10 s, 12 s, ...      2: 0.85 s, 0.90 s, ... (just above the fade)
\*   3: 4.05 s each               4: 12 s then 0.5 s each (below the fade)
DurationProfiles == 1..4
ProfileDuration(p, idx) ==
    CASE p = 1 -> 80000 + 20000 * idx
      [] p = 2 -> 8500 + 500 * idx
      [] p = 3 -> 40500
      [] p = 4 -> IF idx = 0 THEN 120000 ELSE 5000

\* The scene index lists examined: 0..n-1 in ascending order, and reversed.
Ascending(n) == [k \in 1..n |-> k - 1]
Descending(n) == [k \in 1..n |-> n - k]
IndexLists == UNION {{Ascending(n), Descending(n)} : n \in 1..MaxScenes}

SceneIndices(sc) == {sc[k].index : k \in 1..Len(sc)}
SceneDurations(sc) == [k \in 1..Len(sc) |-> sc[k].duration]

\* generate_narration_track handed the durations the scenes had before the
\* reconciler ran.
NarrationTrackLengthDeclared(sc) == SumSeq(declared)

\* generate_narration_track: one WAV of "-t scene_duration" per scene,
\* concatenated, so the track lasts the sum of the scene durations.
NarrationTrackLength(sc) == SumSeq(SceneDurations(sc))

-----------------------------------------------------------------------------
(* compile_video : pure parts *)

\* _get_duration: ffprobe's format.duration, or 10.0 when ffprobe exits non-zero
GetDuration(actual, returncode) == IF returncode = 0 THEN actual ELSE 100000

\* _scene_to_clip, primary command: time_args = ["-t", str(dur)]
PrimaryTarget(scene) == scene.duration

\* _scene_to_clip, fallback command: "-t", str(dur)
FallbackTarget(scene) == scene.duration

\* An encode with "-t t": an image ("-loop 1") lasts t, a video input is read
\* once and ends with its source.
EncodedLength(t, suffix, src_len) ==
    IF suffix = "mp4" THEN Min(t, src_len) ELSE t

\* _scene_to_clip "-t dur": an image is looped to dur, a video is read once.
ClipLength(scene, suffix, src_len) ==
    IF suffix = "mp4" THEN Min(scene.duration, src_len) ELSE scene.duration

\* subprocess.run(cmd, capture_output=True, timeout=300): the exit code of
\* ffmpeg, or TimedOut when the run raises subprocess.TimeoutExpired.
EncodeOutcomes == {0, 1, TimedOut}

\* _scene_to_clip that goes straight to the fallback command.
SceneToClipFallbackFirst(scene, primary_rc, fallback_rc) ==
    [encodes |-> <<<<"fallback", FallbackTarget(scene), fallback_rc>>>>,
     result  |-> IF fallback_rc = 0 THEN "clip" ELSE "raise"]

\* _scene_to_clip whose fallback command asks for half the scene.
SceneToClipFallbackHalved(scene, primary_rc, fallback_rc) ==
    LET first  == <<"primary", PrimaryTarget(scene), primary_rc>>
        second == <<"fallback", FallbackTarget(scene) \div 2, fallback_rc>>
    IN  IF primary_rc = TimedOut
        THEN [encodes |-> <<first>>, result |-> "raise"]
        ELSE IF primary_rc = 0
        THEN [encodes |-> <<first>>, result |-> "clip"]
        ELSE [encodes |-> <<first, second>>,
              result  |-> IF fallback_rc = 0 THEN "clip" ELSE "raise"]

\* _scene_to_clip: the encoder invocations it makes, each with its "-t" and
\* its outcome, and whether it returns clip_path or raises (TimeoutExpired
\* from either run, RuntimeError when the fallback exits non-zero).
SceneToClip(scene, primary_rc, fallback_rc) ==
    LET first  == <<"primary", PrimaryTarget(scene), primary_rc>>
        second == <<"fallback", FallbackTarget(scene), fallback_rc>>
    IN  IF primary_rc = TimedOut
        THEN [encodes |-> <<first>>, result |-> "raise"]
        ELSE IF primary_rc = 0
        THEN [encodes |-> <<first>>, result |-> "clip"]
        ELSE [encodes |-> <<first, second>>,
              result  |-> IF fallback_rc = 0 THEN "clip" ELSE "raise"]

\* The offsets loop without the max(0.1, .) floor.
RECURSIVE XfadeOffsetsFromNoFloor(_, _, _, _)
XfadeOffsetsFromNoFloor(durs, i, running_output_dur, acc) ==
    IF i > Len(durs) - 1 THEN acc
    ELSE LET offset == running_output_dur - CROSSFADE_DURATION
         IN  XfadeOffsetsFromNoFloor(durs, i + 1, offset + durs[i + 1],
                                     Append(acc, offset))

\* The offsets loop with the running output restarted at each clip.
RECURSIVE XfadeOffsetsFromRestart(_, _, _, _)
XfadeOffsetsFromRestart(durs, i, running_output_dur, acc) ==
    IF i > Len(durs) - 1 THEN acc
    ELSE LET offset == running_output_dur - CROSSFADE_DURATION
         IN  XfadeOffsetsFromRestart(durs, i + 1, durs[i + 1],
                                     Append(acc, Max(OFFSET_FLOOR, offset)))

\* The offsets loop of _concat_with_xfade; i is the 1-based transition number.
RECURSIVE XfadeOffsetsFrom(_, _, _, _)
XfadeOffsetsFrom(durs, i, running_output_dur, acc) ==
    IF i > Len(durs) - 1 THEN acc
    ELSE LET offset == running_output_dur - CROSSFADE_DURATION
         IN  XfadeOffsetsFrom(durs, i + 1, offset + durs[i + 1],
                              Append(acc, Max(OFFSET_FLOOR, offset)))

XfadeOffsets(durs) == XfadeOffsetsFrom(durs, 1, durs[1], <<>>)

\* The xfade filter chain: each xfade ends when its second input ends, and the
\* second input starts at the offset, so the output of the chain lasts
\* offsets[n-1] + dur[n].
XfadeOutputLength(durs, offs) == offs[Len(offs)] + durs[Len(durs)]

\* _simple_concat: the clips back to back.
SimpleConcatLength(durs) == SumSeq(durs)

\* _freeze_extend_video: tpad clones the last frame for "%.3f" % extra seconds;
\* when the encode fails the original is copied.
FreezeExtendVideo(current_dur, target_dur, encode_ok) ==
    LET extra == target_dur - current_dur
    IN  IF extra <= FREEZE_MIN_EXTRA THEN current_dur
        ELSE IF encode_ok THEN current_dur + Fmt3(extra)
        ELSE current_dur

\* compile_video step 3: the video that is handed on to the mixer.
ExtendedLength(merged, narr, encode_ok) ==
    LET narr_dur == GetDuration(narr, 0)
        vid_dur  == GetDuration(merged, 0)
    IN  IF narr_dur > vid_dur + EXTEND_THRESHOLD
        THEN FreezeExtendVideo(merged, narr_dur, encode_ok)
        ELSE merged

ExtendOutcome(merged, narr, encode_ok) ==
    IF GetDuration(narr, 0) > GetDuration(merged, 0) + EXTEND_THRESHOLD
    THEN (IF encode_ok THEN "extended" ELSE "encode_failed")
    ELSE "not_needed"

\* _mix_audio_tracks, primary command: the narration is atrim'ed to vid_dur,
\* amix duration=first keeps the narrator's length, "-t vid_dur" ends the file.
MixPrimaryAudio(video, narr) ==
    LET vid_dur == Fmt3(GetDuration(video, 0))
    IN  Min(Min(narr, vid_dur), vid_dur)
MixPrimaryVideo(video) == Min(video, Fmt3(GetDuration(video, 0)))

\* _mix_audio_tracks whose fallback command has no "-shortest".
MixFallbackLengthUnclamped(video, narr) == narr

\* _mix_audio_tracks, fallback command: "-shortest".
MixFallbackLength(video, narr) == Min(video, narr)

\* _add_audio: the music looped for ever, atrim'ed and "-t" to vid_dur.
AddAudioLength(video) == Fmt3(GetDuration(video, 0))

-----------------------------------------------------------------------------
(* Pipeline : state *)

RunDir == "vidgen_"
TtsDir == "vidgen_tts_"

\* Test mode (use_placeholders) never looks at the keys: it is run without them.
Configs ==
    {c \in [use_placeholders : BOOLEAN, hf_token : BOOLEAN,
            gemini_api_key : BOOLEAN] :
        c.use_placeholders => ~c.hf_token /\ ~c.gemini_api_key}

\* No answer of the routing agent: it has not been asked.
NoChoice == "none"

\* Pipeline.__init__
PipelineNew ==
    /\ pc = "idle"
    /\ cancelled = FALSE
    /\ self_tmpdir = FALSE
    /\ ii = 0
    /\ vi = 0
    /\ routed = NoChoice
    /\ veo_jobs = {}
    /\ hf_futures = <<>>
    /\ joined = {}
    /\ round_todo = <<>>
    /\ done_keys = {}
    /\ poll_round = 0
    /\ last_poll_round = 0
    /\ cancel_round = NoRound
    /\ injected = FALSE
    /\ progress = {}

\* No job of the web backend.
JobNone ==
    /\ job_state = "none"
    /\ job_status = "none"
    /\ job_pipeline = FALSE

\* No pipeline at all: the state of these variables when a function of the
\* compiler or the reconciler is examined on its own.
RunIdle ==
    /\ PipelineNew
    /\ JobNone
    /\ cfg = [use_placeholders |-> TRUE, hf_token |-> FALSE,
              gemini_api_key |-> FALSE]

-----------------------------------------------------------------------------
(* sync_scene_durations_to_narration (the Duration Reconciler) *)

SyncDir == "vidgen_tts_sync_"

\* round(x, 1): to the nearest 0.1 s (1000 ticks), an exact tie to the even one.
RoundTenth(x) ==
    LET q == x \div 1000
        r == x % 1000
    IN  IF r < 500 THEN q * 1000
        ELSE IF r > 500 THEN (q + 1) * 1000
        ELSE IF q % 2 = 0 THEN q * 1000 ELSE (q + 1) * 1000

RequiredDuration(speech_dur) ==
    NARRATION_LEAD_IN + speech_dur + NARRATION_PADDING_AFTER

\* The reconciler that also pads a scene whose narration already fits.
SyncedDurationPadsAgain(duration, speech_dur) ==
    IF speech_dur = TtsRaised THEN duration
    ELSE IF duration < RequiredDuration(speech_dur)
         THEN RoundTenth(RequiredDuration(speech_dur))
         ELSE duration + NARRATION_PADDING_AFTER

\* The body of the loop for one scene: speech_dur is what _mp3_duration
\* returned (0 when ffprobe failed), or TtsRaised when the synthesis raised
\* and the except clause kept the duration.
SyncedDuration(duration, speech_dur) ==
    IF speech_dur = TtsRaised THEN duration
    ELSE IF duration < RequiredDuration(speech_dur)
         THEN RoundTenth(RequiredDuration(speech_dur))
         ELSE duration

\* What the synthesis and measurement of one scene can give: an exception,
\* 0.0 from _mp3_duration, or a speech length (3 s, 14.5 s, 14.54 s, 14.56 s).
SpeechOutcomes == {TtsRaised, 0, 30000, 145000, 145400, 145600}

\* Declared scene durations of the examined scene lists (1 s, 10 s, 16.12 s,
\* 20 s); parse_user_story takes any float the user wrote.
DeclaredDurations == {10000, 100000, 161200, 200000}

SyncIdle ==
    /\ spc = "idle"
    /\ si = 0
    /\ sync_pass = 0
    /\ speech = <<>>
    /\ speech_before = <<>>
    /\ declared = <<>>
    /\ first_result = <<>>
    /\ npc = "idle"
    /\ ni = 0
    /\ segments = <<>>

\* Entry: progress_cb(...), tempfile.mkdtemp(prefix="vidgen_tts_sync_").
SyncEnter ==
    /\ spc \in {"idle", "returned"}
    /\ spc' = "loop"
    /\ si' = 1
    /\ sync_pass' = sync_pass + 1
    /\ speech' = <<>>
    /\ speech_before' = speech
    /\ declared' = IF sync_pass = 0 THEN SceneDurations(scenes) ELSE declared
    /\ first_result' = IF sync_pass = 1 THEN SceneDurations(scenes) ELSE first_result
    /\ tmpdirs' = tmpdirs \cup {SyncDir}
    /\ UNCHANGED track_vars

\* One iteration of "for scene in scenes" with the given outcome.
SyncSceneWith(speech_dur) ==
    /\ spc = "loop"
    /\ si <= Len(scenes)
    /\ scenes' = [scenes EXCEPT ![si].duration = SyncedDuration(@, speech_dur)]
    /\ speech' = Append(speech, speech_dur)
    /\ si' = si + 1
    /\ UNCHANGED <<tmpdirs, spc, sync_pass, speech_before, declared,
                   first_result, track_vars>>

\* After the loop: shutil.rmtree(tmpdir), progress_cb(total), return scenes.
SyncReturn ==
    /\ spc = "loop"
    /\ si > Len(scenes)
    /\ tmpdirs' = tmpdirs \ {SyncDir}
    /\ spc' = "returned"
    /\ UNCHANGED <<scenes, si, sync_pass, speech, speech_before, declared,
                   first_result, track_vars>>

-----------------------------------------------------------------------------
(* generate_video and generate_image : the retry loops *)

MAX_RETRIES == 3
RETRY_DELAY == 50000

\* Nothing has been raised.
NoRaise == <<"none", "none">>

\* models = [PRIMARY_IMAGE_MODEL, FALLBACK_IMAGE_MODEL]; generate_video has
\* VIDEO_MODEL alone.
ModelCount(fn) == IF fn = "generate_image" THEN 2 ELSE 1

\* _call_hf_img2vid / _call_hf_image: bytes, an exception, or the
\* StopIteration the client raises when no provider serves the model.
CallOutcomes == {"ok", "error", "StopIteration"}

\* The thread each function is called from: generate_image in the loop of
\* step_generate_images, generate_video inside run_hf_gen, which is handed to
\* the ThreadPoolExecutor.
CallerThread(fn) == IF fn = "generate_image" THEN "controller" ELSE "pool"

\* progress_cb(msg) called by a thread.
Callback(log, thread, kind) == Append(log, <<thread, kind>>)

\* time.sleep(RETRY_DELAY) before the next attempt.
RetrySleep(attempt) == RETRY_DELAY

\* What generate_video raises from "except StopIteration".
UnavailableSignal == <<"RuntimeError", "not available on HF serverless API">>

\* What generate_video raises after its loop.
ExhaustedSignal == <<"RuntimeError", "failed after MAX_RETRIES attempts">>

\* What generate_image raises after both loops.
AllModelsFailedSignal == <<"RuntimeError", "failed for all models">>

APPROVAL_THRESHOLD == 8
MAX_REFINE_ITERATIONS == 4

\* "best_review: StoryReview | None = None"
NoList == -1
NoReview == <<NoList, 0>>

\* review_story: a StoryReview with its score, or an exception.
ReviewScores == {3, 6, 8}

\* Outside a call of the generator functions.
GenIdle ==
    /\ gpc = "idle"
    /\ gen_fn = "none"
    /\ gen_thread = "none"
    /\ gen_model = 0
    /\ gen_attempt = 0
    /\ gen_calls = <<>>
    /\ gen_sleeps = <<>>
    /\ gen_raised = NoRaise
    /\ cb_log = <<>>

\* Outside a call of review_and_refine.
ReviewIdle ==
    /\ rpc = "idle"
    /\ max_iterations = 0
    /\ iteration = 0
    /\ best_scenes = 0
    /\ best_review = NoReview
    /\ reviews = <<>>
    /\ refiner_calls = 0

\* Outside a call of the script functions.
ScriptIdle ==
    /\ scpc = "idle"
    /\ script_fn = "none"
    /\ script_in = <<>>
    /\ script_i = 0
    /\ total_duration = 0
    /\ script_out = <<>>

UnitIdle == GenIdle /\ ReviewIdle /\ ScriptIdle

\* The call: the first model, "for attempt in range(1, MAX_RETRIES + 1)".
GenEnter(fn) ==
    /\ gpc = "idle"
    /\ gpc' = "attempt"
    /\ gen_fn' = fn
    /\ gen_thread' = CallerThread(fn)
    /\ gen_model' = 1
    /\ gen_attempt' = 1
    /\ UNCHANGED <<gen_calls, gen_sleeps, gen_raised, cb_log, review_vars, script_vars>>

\* One pass of the try block and its except clauses.
GenAttempt ==
    /\ gpc = "attempt"
    /\ \E out \in CallOutcomes :
          LET announced == Callback(cb_log, gen_thread, "attempt") IN
          /\ gen_calls' = Append(gen_calls, <<gen_model, gen_attempt, out>>)
          /\ IF out = "ok"
             THEN /\ gpc' = "returned"
                  /\ cb_log' = announced
                  /\ UNCHANGED gen_raised
             ELSE IF out = "StopIteration" /\ gen_fn = "generate_video"
             THEN /\ gpc' = "raised"
                  /\ gen_raised' = UnavailableSignal
                  /\ cb_log' = Callback(announced, gen_thread, "unavailable")
             ELSE /\ gpc' = IF gen_attempt < MAX_RETRIES THEN "sleep"
                            ELSE "exhausted"
                  /\ cb_log' = Callback(announced, gen_thread, "failed")
                  /\ UNCHANGED gen_raised
    /\ UNCHANGED <<gen_fn, gen_thread, gen_model, gen_attempt, gen_sleeps,
                   review_vars, script_vars>>

\* "if attempt < MAX_RETRIES: time.sleep(RETRY_DELAY)" and the next attempt.
GenSleep ==
    /\ gpc = "sleep"
    /\ gen_sleeps' = Append(gen_sleeps, RetrySleep(gen_attempt))
    /\ gen_attempt' = gen_attempt + 1
    /\ gpc' = "attempt"
    /\ UNCHANGED <<gen_fn, gen_thread, gen_model, gen_calls, gen_raised, cb_log,
                   review_vars, script_vars>>

\* The attempts of one model are used up: generate_image reports it and goes
\* to the next model, and raises after the last; generate_video raises.
GenExhausted ==
    /\ gpc = "exhausted"
    /\ IF gen_fn = "generate_video"
       THEN /\ gpc' = "raised"
            /\ gen_raised' = ExhaustedSignal
            /\ UNCHANGED <<gen_model, gen_attempt, cb_log>>
       ELSE /\ cb_log' = Callback(cb_log, gen_thread, "exhausted")
            /\ IF gen_model < ModelCount(gen_fn)
               THEN /\ gen_model' = gen_model + 1
                    /\ gen_attempt' = 1
                    /\ gpc' = "attempt"
                    /\ UNCHANGED gen_raised
               ELSE /\ gpc' = "raised"
                    /\ gen_raised' = AllModelsFailedSignal
                    /\ UNCHANGED <<gen_model, gen_attempt>>
    /\ UNCHANGED <<gen_fn, gen_thread, gen_calls, gen_sleeps, review_vars, script_vars>>

\* While a pool job runs, the controller goes on with its submit loop:
\* progress_cb("Preparing scene N...") for each further video scene.
ControllerProgress ==
    /\ gen_thread = "pool"
    /\ gpc \in {"attempt", "sleep", "exhausted"}
    /\ Len(SelectSeq(cb_log, LAMBDA e : e[1] = "controller")) < MaxRunScenes - 1
    /\ cb_log' = Callback(cb_log, "controller", "preparing")
    /\ UNCHANGED <<gpc, gen_fn, gen_thread, gen_model, gen_attempt, gen_calls,
                   gen_sleeps, gen_raised, review_vars, script_vars>>

-----------------------------------------------------------------------------
(* review_and_refine : the reviewer-refiner loop *)

\* The call: best_scenes = scenes, best_review = None, iteration 1.
ReviewEnter(max_it) ==
    /\ rpc = "idle"
    /\ rpc' = "review"
    /\ max_iterations' = max_it
    /\ iteration' = 1
    /\ UNCHANGED <<best_scenes, best_review, reviews, refiner_calls>>

\* "if best_review is None or review.score > best_review.score"
TrackBest(best, review) ==
    IF best = NoReview \/ review[2] > best[2] THEN review ELSE best

\* The loop body up to the refiner: review_story(best_scenes, ...), which
\* raises (break) or gives a review; approved, or the last iteration: break.
ReviewStory ==
    /\ rpc = "review"
    /\ \E raised \in BOOLEAN, score \in ReviewScores :
          IF raised
          THEN /\ rpc' = "returned"
               /\ UNCHANGED <<reviews, best_review>>
          ELSE LET review == <<best_scenes, score>> IN
               /\ reviews' = Append(reviews, review)
               /\ best_review' = TrackBest(best_review, review)
               /\ rpc' = IF score >= APPROVAL_THRESHOLD THEN "returned"
                         ELSE IF iteration = max_iterations THEN "returned"
                         ELSE "refine"
    /\ UNCHANGED <<max_iterations, iteration, best_scenes, refiner_calls>>

\* "refined = refine_story(best_scenes, review, ...); best_scenes = refined",
\* or the refiner raises (break); then the next iteration.
RefineStory ==
    /\ rpc = "refine"
    /\ refiner_calls' = refiner_calls + 1
    /\ \E raised \in BOOLEAN :
          IF raised
          THEN /\ rpc' = "returned"
               /\ UNCHANGED <<best_scenes, iteration>>
          ELSE /\ best_scenes' = refiner_calls'
               /\ iteration' = iteration + 1
               /\ rpc' = "review"
    /\ UNCHANGED <<max_iterations, best_review, reviews>>

-----------------------------------------------------------------------------
(* scriptgen : generate_script and the two story parsers *)

TARGET_DURATION == 1200000

MaxLines == 3
MaxSections == 2

\* float("nan"): a value for which every comparison is false.
NaN == -99999999

\* The texts given to float() in the inputs examined.
FloatTexts == {"", "1", "1.5", "5", "8", "10", "12.5", "-5", "nan", "fast"}

\* float(text) does not raise ValueError
Parses(text) == text \in {"1", "1.5", "5", "8", "10", "12.5", "-5", "nan"}

\* float(text), ticks
Float(text) ==
    CASE text = "1"    -> 10000
      [] text = "1.5"  -> 15000
      [] text = "5"    -> 50000
      [] text = "8"    -> 80000
      [] text = "10"   -> 100000
      [] text = "12.5" -> 125000
      [] text = "-5"   -> -50000
      [] text = "nan"  -> NaN

\* a > b on floats
Greater(a, b) == a # NaN /\ b # NaN /\ a > b

\* A scene built with the duration as parsed.
Unclamped(duration) == duration

\* max(3.0, duration): the first argument stays unless the second is greater
ClampDuration(duration) == IF Greater(duration, 30000) THEN duration ELSE 30000

\* "try: duration = float(text) except ValueError: pass"
TryFloat(duration, text) == IF Parses(text) THEN Float(text) ELSE duration

\* _TEMPLATES: duration (ticks) and media type of each template scene, for
\* the default, nature, flight and tech templates.
TemplateScene(d, m) == [duration |-> d * 10000, media_type |-> m]
Templates ==
    << [k \in 1..11 |->
          TemplateScene(<<8, 10, 12, 10, 12, 10, 12, 12, 10, 10, 8>>[k],
                        IF k \in {4, 7} THEN "video" ELSE "image")],
       [k \in 1..11 |->
          TemplateScene(<<8, 12, 10, 12, 10, 12, 10, 10, 12, 10, 8>>[k],
                        IF k \in {3, 5} THEN "video" ELSE "image")],
       [k \in 1..11 |->
          TemplateScene(<<8, 10, 12, 10, 12, 12, 10, 12, 10, 10, 8>>[k],
                        IF k \in {4, 6} THEN "video" ELSE "image")],
       [k \in 1..11 |->
          TemplateScene(<<8, 12, 10, 12, 12, 10, 10, 12, 10, 10, 8>>[k],
                        IF k \in {3, 8} THEN "video" ELSE "image")] >>

\* The lines of a pipe-separated story: blank, a comment, a line with fewer
\* than two non-empty fields, or "narration | visual" and its extra fields.
StoryLines ==
    {[kind |-> k, extras |-> <<>>] : k \in {"blank", "comment", "short"}}
    \cup {[kind |-> "scene", extras |-> e] :
           e \in {<<>>, <<"1">>, <<"12.5">>, <<"-5">>, <<"nan">>, <<"fast">>,
                  <<"video">>, <<"video", "1">>, <<"8", "Image">>}}

\* "s.lower()" on the extra fields examined
Lower(text) == IF text = "Image" THEN "image" ELSE text

\* The extras of one line, left to right, on the defaults (10 s, image).
RECURSIVE ApplyExtras(_, _)
ApplyExtras(acc, extras) ==
    IF extras = <<>> THEN acc
    ELSE LET extra == Head(extras) IN
         ApplyExtras(IF Lower(extra) \in {"image", "video"}
                     THEN [acc EXCEPT !.media_type = Lower(extra)]
                     ELSE [acc EXCEPT !.duration = TryFloat(acc.duration, extra)],
                     Tail(extras))

\* The sections of a markdown story: whether both Narration: and Visual: are
\* there, the duration chunk of the heading, and the "Duration:" field.
HeadingChunks == {"", "1s", "nans", "12.5", "fast"}
DurationFields == {"", "-5", "nan", "1.5s"}
StorySections ==
    [complete : BOOLEAN, heading : HeadingChunks, field : DurationFields,
     type : {"", "video"}]

\* "chunk[:-1]" when the chunk ends with "s", else the chunk
HeadingNumber(chunk) ==
    CASE chunk = "1s"   -> "1"
      [] chunk = "nans" -> "nan"
      [] OTHER          -> chunk

\* re.sub(r"[^0-9.]", "", text)
DigitsAndDots(text) ==
    CASE text = "-5"   -> "5"
      [] text = "nan"  -> ""
      [] text = "1.5s" -> "1.5"
      [] OTHER         -> text

\* Duration and media type of one section: the defaults, the heading chunks,
\* then the fields in the body.
SectionValues(section) ==
    LET heading == IF section.heading = "" THEN 100000
                   ELSE TryFloat(100000, HeadingNumber(section.heading))
        field   == IF section.field = "" THEN heading
                   ELSE TryFloat(heading, DigitsAndDots(section.field))
    IN  [duration |-> field,
         media_type |-> IF section.type = "video" THEN "video" ELSE "image"]

\* The sequences of at most n members of S.
SeqsUpTo(S, n) == UNION {[1..k -> S] : k \in 0..n}

\* generate_script(prompt): the template picked
ScriptEnterGenerate(t) ==
    /\ scpc = "idle"
    /\ scpc' = "template"
    /\ script_fn' = "generate_script"
    /\ script_in' = Templates[t]
    /\ UNCHANGED <<script_i, total_duration, script_out>>

\* parse_user_story(text)
ScriptEnterLines(lines) ==
    /\ scpc = "idle"
    /\ scpc' = "lines"
    /\ script_fn' = "parse_user_story"
    /\ script_in' = lines
    /\ UNCHANGED <<script_i, total_duration, script_out>>

\* parse_markdown_story(text) on a text with "##" headings
ScriptEnterSections(sections) ==
    /\ scpc = "idle"
    /\ scpc' = "sections"
    /\ script_fn' = "parse_markdown_story"
    /\ script_in' = sections
    /\ UNCHANGED <<script_i, total_duration, script_out>>

\* parse_markdown_story(text) on a text without headings:
\* "return title, parse_user_story(text), StorySettings()"
ScriptEnterFallback(lines) ==
    /\ scpc = "idle"
    /\ scpc' = "lines"
    /\ script_fn' = "parse_markdown_story"
    /\ script_in' = lines
    /\ UNCHANGED <<script_i, total_duration, script_out>>

\* generate_script, one iteration of "for i, tmpl in enumerate(...)", and
\* after the loop the rescaling and the return.
ScriptTemplateStep ==
    /\ scpc = "template"
    /\ LET over == script_i >= Len(script_in)
           dur  == IF over THEN 0 ELSE script_in[script_i + 1].duration
           stop == over \/ total_duration + dur > TARGET_DURATION + 50000
       IN  IF stop
           THEN /\ scpc' = "returned"
                /\ script_out' =
                      IF script_out # <<>>
                         /\ total_duration < TARGET_DURATION - 100000
                      THEN [k \in 1..Len(script_out) |->
                              [script_out[k] EXCEPT !.duration =
                                 RoundTenth((@ * TARGET_DURATION)
                                            \div total_duration)]]
                      ELSE script_out
                /\ UNCHANGED <<script_i, total_duration>>
           ELSE /\ script_out' =
                      Append(script_out,
                             Scene(script_i, dur,
                                   script_in[script_i + 1].media_type))
                /\ total_duration' = total_duration + dur
                /\ script_i' = script_i + 1
                /\ UNCHANGED scpc
    /\ UNCHANGED <<script_fn, script_in>>

\* "if not scenes: raise ValueError(...)", else the return
ScriptEnd ==
    /\ scpc' = IF script_out = <<>> THEN "raised" ELSE "returned"
    /\ UNCHANGED <<script_i, script_out>>

\* parse_user_story, one iteration of "for raw_line in text.splitlines()"
ScriptLineStep ==
    /\ scpc = "lines"
    /\ IF script_i >= Len(script_in)
       THEN ScriptEnd
       ELSE LET line == script_in[script_i + 1]
                got  == ApplyExtras([duration |-> 100000, media_type |-> "image"],
                                    line.extras)
            IN  /\ script_out' =
                      IF line.kind = "scene"
                      THEN Append(script_out,
                                  Scene(Len(script_out),
                                        ClampDuration(got.duration),
                                        got.media_type))
                      ELSE script_out
                /\ script_i' = script_i + 1
                /\ UNCHANGED scpc
    /\ UNCHANGED <<script_fn, script_in, total_duration>>

\* parse_markdown_story, one iteration of "for section in parts[1:]"
ScriptSectionStep ==
    /\ scpc = "sections"
    /\ IF script_i >= Len(script_in)
       THEN ScriptEnd
       ELSE LET section == script_in[script_i + 1]
                got     == SectionValues(section)
            IN  /\ script_out' =
                      IF section.complete
                      THEN Append(script_out,
                                  Scene(Len(script_out),
                                        ClampDuration(got.duration),
                                        got.media_type))
                      ELSE script_out
                /\ script_i' = script_i + 1
                /\ UNCHANGED scpc
    /\ UNCHANGED <<script_fn, script_in, total_duration>>

-----------------------------------------------------------------------------
(* compile_video : the steps *)

CompileDir == "vidgen_compile_"

\* The state of the compiler's variables outside a call of compile_video.
CompileIdle ==
    /\ cpc = "idle"
    /\ ci = 0
    /\ clip_paths = <<>>
    /\ clip_len = <<>>
    /\ skip_notes = {}
    /\ clip_durations = <<>>
    /\ offsets = <<>>
    /\ assembly = "none"
    /\ timeline_len = NoFile
    /\ merged_len = NoFile
    /\ extend_try = "none"
    /\ mixer_video_len = NoFile
    /\ mix_path = "none"
    /\ final_video_len = NoFile
    /\ final_audio_len = NoFile
    /\ encodes = <<>>
    /\ renders = <<>>

\* An exception leaves compile_video through "finally: shutil.rmtree(tmpdir)".
CompileRaise ==
    /\ cpc' = "raised"
    /\ tmpdirs' = tmpdirs \ {CompileDir}

\* _check_ffmpeg() and tempfile.mkdtemp(prefix="vidgen_compile_")
CompileEnter(ffmpeg_found) ==
    /\ cpc = "idle"
    /\ IF ffmpeg_found
       THEN /\ cpc' = "clips"
            /\ ci' = 1
            /\ tmpdirs' = tmpdirs \cup {CompileDir}
       ELSE /\ cpc' = "raised"
            /\ UNCHANGED <<ci, tmpdirs>>
    /\ UNCHANGED <<clip_paths, clip_len, skip_notes, clip_durations, offsets,
                   assembly, timeline_len, merged_len, extend_try,
                   mixer_video_len, mix_path, final_video_len, final_audio_len, encodes, renders>>

\* CompileSkipScene with the notification lost.
CompileSkipSceneSilently ==
    /\ cpc = "clips"
    /\ ci <= Len(scenes)
    /\ scenes[ci].index \notin DOMAIN media_paths
    /\ ci' = ci + 1
    /\ encodes' = <<>>
    /\ UNCHANGED <<sync_vars, run_vars, unit_vars, scenes, media_paths, tmpdirs, cpc, clip_paths, clip_len,
                   skip_notes, clip_durations, offsets, assembly, timeline_len,
                   merged_len, narration, music, extend_try, mixer_video_len,
                   mix_path, final_video_len, final_audio_len, renders>>

\* Step 1, one iteration of "for scene in scenes" for a scene without media.
CompileSkipScene ==
    /\ cpc = "clips"
    /\ ci <= Len(scenes)
    /\ scenes[ci].index \notin DOMAIN media_paths
    /\ skip_notes' = skip_notes \cup {scenes[ci].index}
    /\ ci' = ci + 1
    /\ encodes' = <<>>
    /\ UNCHANGED <<sync_vars, run_vars, unit_vars, scenes, media_paths, tmpdirs, cpc, clip_paths, clip_len,
                   clip_durations, offsets, assembly, timeline_len, merged_len,
                   narration, music, extend_try, mixer_video_len, mix_path,
                   final_video_len, final_audio_len, renders>>

\* Step 1, one iteration for a scene with media: _scene_to_clip returns the
\* clip, which is appended, or raises, which leaves compile_video.
CompileSceneToClip ==
    /\ cpc = "clips"
    /\ ci <= Len(scenes)
    /\ scenes[ci].index \in DOMAIN media_paths
    /\ \E primary_rc \in EncodeOutcomes, fallback_rc \in EncodeOutcomes,
          src_len \in VideoSourceLengths :
          LET call == SceneToClip(scenes[ci], primary_rc, fallback_rc)
              made == call.encodes[Len(call.encodes)]
          IN  /\ encodes' = call.encodes
              /\ IF call.result = "raise"
                 THEN /\ CompileRaise
                      /\ UNCHANGED <<ci, clip_paths, clip_len>>
                 ELSE /\ clip_paths' = Append(clip_paths, scenes[ci].index)
                      /\ clip_len' = Append(clip_len,
                            EncodedLength(made[2],
                                          media_paths[scenes[ci].index], src_len))
                      /\ ci' = ci + 1
                      /\ UNCHANGED <<cpc, tmpdirs>>
    /\ UNCHANGED <<sync_vars, run_vars, unit_vars, scenes, media_paths, skip_notes, clip_durations, offsets,
                   assembly, timeline_len, merged_len, narration, music,
                   extend_try, mixer_video_len, mix_path, final_video_len,
                   final_audio_len, renders>>

\* After the loop: "if not clip_paths: raise RuntimeError".
CompileClipsDone ==
    /\ cpc = "clips"
    /\ ci > Len(scenes)
    /\ encodes' = <<>>
    /\ IF clip_paths = <<>>
       THEN CompileRaise
       ELSE /\ cpc' = "assemble"
            /\ UNCHANGED tmpdirs
    /\ UNCHANGED <<sync_vars, run_vars, unit_vars, scenes, media_paths, ci, clip_paths, clip_len, skip_notes,
                   clip_durations, offsets, assembly, timeline_len, merged_len,
                   narration, music, extend_try, mixer_video_len, mix_path,
                   final_video_len, final_audio_len, renders>>

\* Step 2 with one clip: shutil.copy2(clip_paths[0], merged.mp4).
CompileSingleClip ==
    /\ cpc = "assemble"
    /\ Len(clip_paths) = 1
    /\ assembly' = "single"
    /\ timeline_len' = clip_len[1]
    /\ merged_len' = clip_len[1]
    /\ cpc' = "extend"
    /\ UNCHANGED <<sync_vars, run_vars, unit_vars, scenes, media_paths, tmpdirs, ci, clip_paths, clip_len,
                   skip_notes, clip_durations, offsets, narration, music,
                   extend_try, mixer_video_len, mix_path, final_video_len,
                   final_audio_len, encodes, renders>>

\* Step 2 with several clips: _concat_with_xfade probes the clips and computes
\* the offsets ...
ConcatWithXfadeOffsets ==
    /\ cpc = "assemble"
    /\ Len(clip_paths) >= 2
    /\ clip_durations' = [k \in 1..Len(clip_len) |-> GetDuration(clip_len[k], 0)]
    /\ offsets' = XfadeOffsets(clip_durations')
    /\ cpc' = "xfade_render"
    /\ UNCHANGED <<sync_vars, run_vars, unit_vars, scenes, media_paths, tmpdirs, ci, clip_paths, clip_len,
                   skip_notes, assembly, timeline_len, merged_len, narration,
                   music, extend_try, mixer_video_len, mix_path,
                   final_video_len, final_audio_len, encodes, renders>>

\* ... and renders: the xfade chain, or _simple_concat when it fails, or
\* CalledProcessError when that fails too.
AssemblyOutcomes == {"xfade", "concat", "raise"}

AssembledLength(path, durs, offs) ==
    IF path = "xfade" THEN XfadeOutputLength(durs, offs)
    ELSE SimpleConcatLength(durs)

\* _concat_with_xfade that raises when the xfade render exits non-zero.
RenderWithoutFallback(clips, xfade_rc, concat_rc) ==
    LET first == <<"xfade", clips, xfade_rc>>
    IN  [renders |-> <<first>>,
         path    |-> IF xfade_rc = 0 THEN "xfade" ELSE "raise"]

\* The renders of _concat_with_xfade: subprocess.run(cmd, timeout=600) of the
\* xfade chain, which raises TimeoutExpired or returns; on a non-zero exit
\* _simple_concat(clip_paths, output) with check=True and timeout=600.
Render(clips, xfade_rc, concat_rc) ==
    LET first  == <<"xfade", clips, xfade_rc>>
        second == <<"concat", clips, concat_rc>>
    IN  IF xfade_rc = TimedOut
        THEN [renders |-> <<first>>, path |-> "raise"]
        ELSE IF xfade_rc = 0
        THEN [renders |-> <<first>>, path |-> "xfade"]
        ELSE [renders |-> <<first, second>>,
              path    |-> IF concat_rc = 0 THEN "concat" ELSE "raise"]

ConcatWithXfadeRender ==
    /\ cpc = "xfade_render"
    /\ \E xfade_rc \in EncodeOutcomes, concat_rc \in EncodeOutcomes :
          LET made == Render(clip_paths, xfade_rc, concat_rc) IN
          /\ made.path \in AssemblyOutcomes
          /\ renders' = made.renders
          /\ IF made.path = "raise"
             THEN /\ CompileRaise
                  /\ UNCHANGED <<assembly, timeline_len, merged_len>>
             ELSE /\ assembly' = made.path
                  /\ timeline_len' = AssembledLength(made.path, clip_len, offsets)
                  /\ merged_len' = timeline_len'
                  /\ cpc' = "extend"
                  /\ UNCHANGED tmpdirs
    /\ UNCHANGED <<sync_vars, run_vars, unit_vars, scenes, media_paths, ci, clip_paths, clip_len, skip_notes,
                   clip_durations, offsets, narration, music, extend_try,
                   mixer_video_len, mix_path, final_video_len, final_audio_len, encodes>>

\* Step 3: freeze-extend the last frame when the narration is longer.
CompileExtend ==
    /\ cpc = "extend"
    /\ IF narration = NoTrack
       THEN /\ extend_try' = "no_narration"
            /\ UNCHANGED merged_len
       ELSE \E encode_ok \in BOOLEAN :
               /\ extend_try' = ExtendOutcome(merged_len, narration, encode_ok)
               /\ merged_len' = ExtendedLength(merged_len, narration, encode_ok)
    /\ cpc' = "mix"
    /\ UNCHANGED <<sync_vars, run_vars, unit_vars, scenes, media_paths, tmpdirs, ci, clip_paths, clip_len,
                   skip_notes, clip_durations, offsets, assembly, timeline_len,
                   narration, music, mixer_video_len, mix_path,
                   final_video_len, final_audio_len, encodes, renders>>

\* Step 4 with a narration track: _mix_audio_tracks.
MixOutcomes == {"primary", "fallback", "raise"}

CompileMixNarration ==
    /\ cpc = "mix"
    /\ narration # NoTrack
    /\ mixer_video_len' = merged_len
    /\ \E out \in MixOutcomes :
          CASE out = "primary" ->
                 /\ mix_path' = IF music THEN "narration+music" ELSE "narration"
                 /\ final_audio_len' = MixPrimaryAudio(merged_len, narration)
                 /\ final_video_len' = MixPrimaryVideo(merged_len)
                 /\ cpc' = "copy"
                 /\ UNCHANGED tmpdirs
            [] out = "fallback" ->
                 /\ mix_path' = "narration_fallback"
                 /\ final_audio_len' = MixFallbackLength(merged_len, narration)
                 /\ final_video_len' = MixFallbackLength(merged_len, narration)
                 /\ cpc' = "copy"
                 /\ UNCHANGED tmpdirs
            [] out = "raise" ->
                 /\ CompileRaise
                 /\ UNCHANGED <<mix_path, final_audio_len, final_video_len>>
    /\ UNCHANGED <<sync_vars, run_vars, unit_vars, scenes, media_paths, ci, clip_paths, clip_len, skip_notes,
                   clip_durations, offsets, assembly, timeline_len, merged_len,
                   narration, music, extend_try, encodes, renders>>

\* Step 4 with music only: _add_audio (check=True: a failure raises).
CompileAddAudio ==
    /\ cpc = "mix"
    /\ narration = NoTrack
    /\ music
    /\ mixer_video_len' = merged_len
    /\ \E ok \in BOOLEAN :
          IF ok
          THEN /\ mix_path' = "music"
               /\ final_audio_len' = AddAudioLength(merged_len)
               /\ final_video_len' = MixPrimaryVideo(merged_len)
               /\ cpc' = "copy"
               /\ UNCHANGED tmpdirs
          ELSE /\ CompileRaise
               /\ UNCHANGED <<mix_path, final_audio_len, final_video_len>>
    /\ UNCHANGED <<sync_vars, run_vars, unit_vars, scenes, media_paths, ci, clip_paths, clip_len, skip_notes,
                   clip_durations, offsets, assembly, timeline_len, merged_len,
                   narration, music, extend_try, encodes, renders>>

\* Step 4 with neither: _add_silent_audio ("-shortest" against an endless
\* silent source), or a plain copy of the video when that fails.
CompileAddSilentAudio ==
    /\ cpc = "mix"
    /\ narration = NoTrack
    /\ ~music
    /\ mixer_video_len' = merged_len
    /\ \E ok \in BOOLEAN :
          /\ mix_path' = IF ok THEN "silent" ELSE "video_only"
          /\ final_audio_len' = IF ok THEN merged_len ELSE 0
          /\ final_video_len' = merged_len
    /\ cpc' = "copy"
    /\ UNCHANGED <<sync_vars, run_vars, unit_vars, scenes, media_paths, tmpdirs, ci, clip_paths, clip_len,
                   skip_notes, clip_durations, offsets, assembly, timeline_len,
                   merged_len, narration, music, extend_try, encodes, renders>>

\* shutil.copy2(final, output_path); return output_path; finally: rmtree.
CompileReturn ==
    /\ cpc = "copy"
    /\ cpc' = "returned"
    /\ tmpdirs' = tmpdirs \ {CompileDir}
    /\ UNCHANGED <<sync_vars, run_vars, unit_vars, scenes, media_paths, ci, clip_paths, clip_len, skip_notes,
                   clip_durations, offsets, assembly, timeline_len, merged_len,
                   narration, music, extend_try, mixer_video_len, mix_path,
                   final_video_len, final_audio_len, encodes, renders>>

\* A direct call of compile_video(scenes, media_paths, ...).
CompileVideo ==
    /\ \E ffmpeg_found \in BOOLEAN : CompileEnter(ffmpeg_found)
    /\ UNCHANGED <<sync_vars, run_vars, unit_vars, scenes, media_paths, narration, music>>

CompileSteps ==
    \/ CompileSkipScene
    \/ CompileSceneToClip
    \/ CompileClipsDone
    \/ CompileSingleClip
    \/ ConcatWithXfadeOffsets
    \/ ConcatWithXfadeRender
    \/ CompileExtend
    \/ CompileMixNarration
    \/ CompileAddAudio
    \/ CompileAddSilentAudio
    \/ CompileReturn

\* The arguments of a call of compile_video.
SceneListOf(idx, p, kinds) ==
    [k \in 1..Len(idx) |->
        Scene(idx[k], ProfileDuration(p, idx[k]),
              IF kinds[k] = "mp4" THEN "video" ELSE "image")]

MediaPathsOf(idx, kinds) ==
    [i \in {idx[k] : k \in {j \in 1..Len(idx) : kinds[j] # "none"}} |->
        kinds[CHOOSE k \in 1..Len(idx) : idx[k] = i]]

CompileInit ==
    /\ \E idx \in IndexLists, p \in DurationProfiles :
       \E kinds \in [1..Len(idx) -> {"none", "png", "mp4"}] :
          /\ scenes = SceneListOf(idx, p, kinds)
          /\ media_paths = MediaPathsOf(idx, kinds)
          /\ narration \in {NoTrack, NarrationTrackLength(scenes)}
    /\ music \in BOOLEAN
    /\ tmpdirs = {}
    /\ CompileIdle
    /\ UnitIdle
    /\ SyncIdle
    /\ RunIdle

CompileNext == CompileVideo \/ CompileSteps

SpecCompile == CompileInit /\ [][CompileNext]_vars

-----------------------------------------------------------------------------
(* Properties of compile_video *)

Handed == mixer_video_len # NoFile
AfterClipLoop == cpc \in {"assemble", "xfade_render", "extend", "mix", "copy", "returned"}
WithMedia(sc, paths) == {k \in 1..Len(sc) : sc[k].index \in DOMAIN paths}
ClipCount == Len(clip_len)
FadedSum == SumSeq(clip_len) - (ClipCount - 1) * CROSSFADE_DURATION

\* C1 (as claimed): whenever a narration track is supplied, the video handed to
\* the audio mixer is at least as long as the narration track, whatever the
\* outcome of the freeze-extend encode; and when the narration is longer than
\* the assembled timeline the extension equals narration minus timeline.
C1_MixerVideoCoversNarration ==
    (Handed /\ narration # NoTrack) =>
        /\ mixer_video_len >= narration
        /\ (narration > timeline_len =>
               mixer_video_len - timeline_len = narration - timeline_len)

\* C2 (as claimed): with narration, the audio stream of the output file is at
\* least as long as the narration track minus a tolerance below one frame
\* (1/30 s), on the primary and on the fallback path of _mix_audio_tracks.
C2_AudioCoversNarration ==
    (cpc = "returned" /\ narration # NoTrack) =>
        30 * (narration - final_audio_len) < 10000

NoClampNeeded ==
    \A k \in 1..ClipCount : clip_len[k] >= CROSSFADE_DURATION + OFFSET_FLOOR

C7_OffsetsMonotone ==
    (/\ cpc = "xfade_render"
     /\ \A k \in 1..Len(clip_durations) : CROSSFADE_DURATION < clip_durations[k]) =>
        /\ Len(offsets) = Len(clip_durations) - 1
        /\ \A k \in 1..Len(offsets) : offsets[k] >= OFFSET_FLOOR
        /\ \A k \in 2..Len(offsets) : offsets[k - 1] <= offsets[k]

C7_Witness ==
    /\ cpc = "xfade_render"
    /\ \A k \in 1..Len(clip_durations) : CROSSFADE_DURATION < clip_durations[k]
    /\ Len(offsets) >= 2
    /\ offsets[1] = OFFSET_FLOOR
    /\ offsets[1] < offsets[2]

\* C19: the offsets of _concat_with_xfade follow the recurrence on the offsets
\* themselves: offset[1] = dur[1] - fade and offset[k] = (offset[k-1] + dur[k])
\* - fade, each clamped below at 0.1 s.
C19_OffsetsFollowClampedRecurrence ==
    cpc = "xfade_render" =>
        /\ Len(offsets) = Len(clip_durations) - 1
        /\ offsets[1] = Max(OFFSET_FLOOR, clip_durations[1] - CROSSFADE_DURATION)
        /\ \A k \in 2..Len(offsets) :
              offsets[k] = Max(OFFSET_FLOOR,
                               (offsets[k - 1] + clip_durations[k])
                                   - CROSSFADE_DURATION)

\* When no offset needs the floor, offset[k] of _concat_with_xfade is
\* the sum of the first k durations minus k fades.
ClosedFormWithoutClamping ==
    (/\ cpc = "xfade_render"
     /\ \A k \in 1..Len(offsets) :
           SumSeq(SubSeq(clip_durations, 1, k)) - k * CROSSFADE_DURATION
               >= OFFSET_FLOOR) =>
        \A k \in 1..Len(offsets) :
            offsets[k] = SumSeq(SubSeq(clip_durations, 1, k))
                             - k * CROSSFADE_DURATION

\* C23: the clips compile_video has encoded, and hands to the assembler, are
\* in ascending scene-index order.
C23_ClipsInAscendingIndexOrder ==
    \A i \in 1..Len(clip_paths) : \A j \in 1..Len(clip_paths) :
        i < j => clip_paths[i] < clip_paths[j]

\* For a scene list in ascending index order the clips are in that order.
AscendingListGivesAscendingClips ==
    (\A i \in 1..Len(scenes) : \A j \in 1..Len(scenes) :
        i < j => scenes[i].index < scenes[j].index) =>
            \A i \in 1..Len(clip_paths) : \A j \in 1..Len(clip_paths) :
                i < j => clip_paths[i] < clip_paths[j]

C17_FallbackKeepsTargetDuration ==
    (cpc = "clips" /\ Len(encodes) = 2 /\ encodes[2][3] = 0) =>
        LET scene == scenes[ci - 1]
            clip  == clip_len[Len(clip_len)]
        IN  /\ encodes[2][2] = encodes[1][2]
            /\ encodes[2][2] = scene.duration
            /\ clip_paths[Len(clip_paths)] = scene.index
            /\ IF media_paths[scene.index] = "mp4"
               THEN clip <= scene.duration
               ELSE clip = scene.duration

C17_Witness ==
    /\ cpc = "clips"
    /\ Len(encodes) = 2
    /\ encodes[2][3] = 0
    /\ media_paths[scenes[ci - 1].index] = "mp4"
    /\ clip_len[Len(clip_len)] = scenes[ci - 1].duration

\* compile_video step 4: the branch taken for the tracks that exist.
AudioTier(narr, mus) ==
    IF narr # NoTrack THEN (IF mus THEN "narration+music" ELSE "narration")
    ELSE IF mus THEN "music" ELSE "silent"

SilentTierNeverRaises ==
    [][(cpc = "mix" /\ narration = NoTrack /\ ~music) => cpc' = "copy"]_vars

\* C31: in no tier does the audio step abort compile_video: the step taken
\* from the mix position always goes on to the copy of final.mp4.
C31_MixFailureNeverAborts ==
    [][cpc = "mix" => cpc' # "raised"]_vars

-----------------------------------------------------------------------------
(* The reconciler called on a scene list, and called again on its result *)

MaxPasses == 2

SyncFirstCall ==
    /\ spc = "idle"
    /\ SyncEnter
    /\ UNCHANGED <<scenes, media_paths, narration, music, compile_vars, unit_vars, run_vars>>

SyncScene ==
    /\ sync_pass = 1
    /\ \E speech_dur \in SpeechOutcomes : SyncSceneWith(speech_dur)
    /\ UNCHANGED <<media_paths, narration, music, compile_vars, unit_vars, run_vars>>

SyncDone ==
    /\ SyncReturn
    /\ UNCHANGED <<media_paths, narration, music, compile_vars, unit_vars, run_vars>>

\* A further call on the scenes the previous call returned ...
SyncNextCall ==
    /\ spc = "returned"
    /\ sync_pass < MaxPasses
    /\ SyncEnter
    /\ UNCHANGED <<scenes, media_paths, narration, music, compile_vars, unit_vars, run_vars>>

\* ... in which every scene's narration measures what it measured before.
SyncSceneAgain ==
    /\ sync_pass > 1
    /\ spc = "loop"
    /\ si <= Len(scenes)
    /\ \E speech_dur \in SpeechOutcomes :
          /\ speech_dur = speech_before[si]
          /\ SyncSceneWith(speech_dur)
    /\ UNCHANGED <<media_paths, narration, music, compile_vars, unit_vars, run_vars>>

SyncInit ==
    /\ \E n \in 1..MaxScenes :
       \E durs \in [1..n -> DeclaredDurations] :
          scenes = [k \in 1..n |-> Scene(k - 1, durs[k], "image")]
    /\ media_paths = <<>>
    /\ narration = NoTrack
    /\ music = FALSE
    /\ tmpdirs = {}
    /\ CompileIdle
    /\ UnitIdle
    /\ SyncIdle
    /\ RunIdle

SyncNext == SyncFirstCall \/ SyncScene \/ SyncDone \/ SyncNextCall \/ SyncSceneAgain

SpecSync == SyncInit /\ [][SyncNext]_vars

-----------------------------------------------------------------------------
(* Properties of the reconciler *)

MeasuredOk(k) == speech[k] > 0

\* C3 (as claimed): after the reconciler returns, every scene whose narration
\* was synthesized and measured has duration >= lead_in + d_speech + pad_after.
C3_DurationCoversRequired ==
    (spc = "returned" /\ sync_pass = 1) =>
        \A k \in 1..Len(scenes) :
            MeasuredOk(k) => scenes[k].duration >= RequiredDuration(speech[k])

\* C4: a second run of the reconciler on the scenes it has reconciled, with the
\* same measured speech durations, leaves every scene's duration as the first
\* run left it.
C4_SecondRunChangesNothing ==
    (spc = "returned" /\ sync_pass = 2) =>
        SceneDurations(scenes) = first_result

C4_Witness ==
    /\ spc = "returned"
    /\ sync_pass = 2
    /\ speech = speech_before
    /\ \E k \in 1..Len(scenes) :
          /\ MeasuredOk(k)
          /\ declared[k] < scenes[k].duration
          /\ scenes[k].duration < RequiredDuration(speech[k])
    /\ \E k \in 1..Len(scenes) :
          /\ MeasuredOk(k)
          /\ declared[k] = scenes[k].duration

\* A scene whose synthesis (or probe) raised keeps its duration, and the loop
\* goes on to the scenes after it.
RaiseLeavesDurationUnchanged ==
    (spc = "returned" /\ sync_pass = 1) =>
        /\ Len(speech) = Len(scenes)
        /\ \A k \in 1..Len(scenes) :
              speech[k] = TtsRaised => scenes[k].duration = declared[k]

\* C20: the reconciler never decreases a scene's duration, and a scene whose
\* synthesis or measurement failed keeps its duration while the remaining
\* scenes are still reconciled.
C20_NeverDecreasesDuration ==
    (spc = "returned" /\ sync_pass = 1) =>
        /\ Len(speech) = Len(scenes)
        /\ \A k \in 1..Len(scenes) :
              /\ scenes[k].duration >= declared[k]
              /\ ~MeasuredOk(k) => scenes[k].duration = declared[k]

-----------------------------------------------------------------------------
(* generate_narration_track on the scenes the reconciler returned *)

\* _make_scene_audio: lead-in silence, the speech cut to trim_dur, silence
\* after, the whole cut by "-t scene_duration".
MakeSceneAudio(speech_dur, scene_duration) ==
    LET available     == Max(0, scene_duration - NARRATION_LEAD_IN)
        trim_dur      == Min(speech_dur, available)
        silence_after == Max(0, (scene_duration - NARRATION_LEAD_IN) - trim_dur)
    IN  [kind   |-> "speech",
         speech |-> speech_dur,
         trim   |-> trim_dur,
         len    |-> Min(NARRATION_LEAD_IN + trim_dur + silence_after,
                        scene_duration)]

\* _make_silence(output_wav, duration)
MakeSilence(duration) ==
    [kind |-> "silence", speech |-> 0, trim |-> 0, len |-> duration]

\* What the second synthesis of scene k and its probe give: an exception, 0.0
\* from _mp3_duration, or the speech length; the text is the one the
\* reconciler measured, so a length measured twice is the same length.
TrackSpeechOutcomes(k) ==
    {TtsRaised, 0} \cup
    (IF speech[k] > 0 THEN {speech[k]} ELSE {d \in SpeechOutcomes : d > 0})

\* assert, tempfile.mkdtemp(prefix="vidgen_tts_")
TrackEnter ==
    /\ spc = "returned"
    /\ sync_pass = 1
    /\ npc = "idle"
    /\ npc' = "loop"
    /\ ni' = 1
    /\ segments' = <<>>
    /\ tmpdirs' = tmpdirs \cup {TtsDir}
    /\ UNCHANGED <<scenes, media_paths, narration, music, compile_vars, unit_vars,
                   run_vars, spc, si, sync_pass, speech, speech_before,
                   declared, first_result>>

\* One iteration of the loop: the speech is synthesized and _make_scene_audio
\* builds the WAV (or a silence when its ffmpeg run fails); when anything
\* raises, the except clause writes a silence of the scene's duration.
TrackScene ==
    /\ npc = "loop"
    /\ ni <= Len(scenes)
    /\ \E speech_dur \in TrackSpeechOutcomes(ni), built \in BOOLEAN :
          segments' = Append(segments,
              IF speech_dur = TtsRaised \/ ~built
              THEN MakeSilence(scenes[ni].duration)
              ELSE MakeSceneAudio(speech_dur, scenes[ni].duration))
    /\ ni' = ni + 1
    /\ UNCHANGED <<scenes, media_paths, tmpdirs, narration, music,
                   compile_vars, unit_vars, run_vars, npc, spc, si, sync_pass, speech,
                   speech_before, declared, first_result>>

\* After the loop: the WAVs are concatenated into the track, or the concat
\* fails and RuntimeError is raised.
TrackReturn ==
    /\ npc = "loop"
    /\ ni > Len(scenes)
    /\ \E ok \in BOOLEAN :
          IF ok
          THEN /\ npc' = "returned"
               /\ narration' = SumSeq([k \in 1..Len(segments) |->
                                          segments[k].len])
          ELSE /\ npc' = "raised"
               /\ UNCHANGED narration
    /\ UNCHANGED <<scenes, media_paths, tmpdirs, music, compile_vars, unit_vars,
                   run_vars, ni, segments, spc, si, sync_pass, speech,
                   speech_before, declared, first_result>>

TrackNext ==
    \/ SyncFirstCall
    \/ SyncScene
    \/ SyncDone
    \/ TrackEnter
    \/ TrackScene
    \/ TrackReturn

SpecTrack == SyncInit /\ [][TrackNext]_vars

\* A scene the reconciler measured keeps its whole speech in its segment.
ReconciledSpeechIsWhole ==
    \A k \in 1..Len(segments) :
        (MeasuredOk(k) /\ segments[k].kind = "speech"
                       /\ segments[k].speech = speech[k]) =>
            segments[k].trim = segments[k].speech

\* C22: in every segment of the narration track that holds speech, the speech
\* placed is the whole measured speech (trim_dur = speech_dur), also for the
\* scenes whose synthesis or probe failed in the reconciler.
C22_SpeechNeverCut ==
    \A k \in 1..Len(segments) :
        segments[k].kind = "speech" => segments[k].trim = segments[k].speech

-----------------------------------------------------------------------------
(* Pipeline : inputs and outcomes of the external collaborators *)

\* The scene lists examined in a run, as generate_script returns them or as
\* inject_scenes receives them: indices 0..n-1 in order, 4.05 s each, any
\* media types.
RunSceneLists ==
    UNION {{[k \in 1..n |-> Scene(k - 1, ProfileDuration(3, k - 1), types[k])] :
              types \in [1..n -> {"image", "video"}]} : n \in 1..MaxRunScenes}

\* What synthesis and measurement give during a run: an exception or 3 s.
RunSpeechOutcomes == {TtsRaised, 30000}

\* step_generate_images, one scene: the image (or the placeholder) is written,
\* or the generator fails and the fallback placeholder is written, or both fail.
ImageOutcomes == {"image", "fallback_placeholder", "none"}

\* submit_video_generation_gemini as its call site tells the outcomes apart:
\* an operation name is returned, or an exception is caught.
VeoSubmitOutcomes == {"token", "raise"}

\* check_video_generation_gemini as its call site tells the outcomes apart:
\* a path (res is not None), None while the job is pending, or an exception.
VeoCheckOutcomes == {"done", "pending", "failed"}

\* generate_video on a pool thread: returns, or raises after its retries.
HfJobOutcomes == {"done", "failed"}

\* run() and step_generate_narration call the reconciler and the narration
\* builder with voice=, rate= and pitch=; the signatures listed in ttsgen.py
\* take no such parameters, so the call raises TypeError before the body. A
\* ttsgen.py that takes them runs the listed body. Both outcomes are kept.
KeywordsAccepted == BOOLEAN

\* "from .utils.gemini_client import submit_video_generation_gemini,
\* check_video_generation_gemini": the listed gemini_client.py defines neither,
\* so the import raises ImportError; with them defined the stage goes on.
ImportOutcomes == {"imported", "ImportError"}

\* review_and_refine: the scenes it was given (also what is kept when it
\* raises), or a refined list of the same length.
ReviewOutcomes(sc) == {r \in RunSceneLists : Len(r) = Len(sc)}

-----------------------------------------------------------------------------
(* Pipeline : pure parts *)

\* An animation loop that goes over every scene, whatever its media type.
EveryScene(sc) == sc

\* video_scenes = [s for s in self._scenes if s.media_type == "video"]
VideoScenes(sc) == SelectSeq(sc, LAMBDA x : x.media_type = "video")

\* available_models, in the order they are appended
AvailableModels(c) ==
    (IF c.gemini_api_key THEN {"veo"} ELSE {}) \cup
    (IF c.hf_token THEN {"hf"} ELSE {})

DefaultModel(c) == IF "veo" \in AvailableModels(c) THEN "veo" ELSE "hf"

\* selected_model after the routing agent: its choice when it answers with an
\* available model (only asked when there is an HF token), else the default.
SelectedModels(c) ==
    IF c.hf_token THEN AvailableModels(c) ELSE {DefaultModel(c)}

\* The routing agent, asked only when there is an HF token: "chosen" is
\* "veo", "hf" (a missing key gives the default, one of the two) or some other
\* value, or _chat / _extract_json raises.
RoutingOutcomes(c) ==
    IF c.hf_token THEN {"veo", "hf", "other", "raise"} ELSE {NoChoice}

\* "if chosen in available_models: selected_model = chosen" without the test.
SelectedModelUnchecked(c, answer) ==
    IF answer \in {"veo", "hf"} THEN answer ELSE DefaultModel(c)

\* selected_model when the scene is dispatched: the default, replaced by the
\* agent's answer when that is an available model.
SelectedModel(c, answer) ==
    IF answer \in AvailableModels(c) THEN answer ELSE DefaultModel(c)

\* The keys of veo_jobs in dict order: the order of the scenes in the list.
RECURSIVE JobOrder(_, _)
JobOrder(sc, jobs) ==
    IF sc = <<>> THEN <<>>
    ELSE IF Head(sc).index \in jobs
         THEN <<Head(sc).index>> \o JobOrder(Tail(sc), jobs)
         ELSE JobOrder(Tail(sc), jobs)

\* A progress channel that loses the message.
NotifyLost(log, kind, idx) == log

\* self.progress_cb(message) / log.*(message) for a message naming a scene
Notify(log, kind, idx) == log \cup {<<kind, idx>>}

\* An assignment that replaces the dict by one holding the new entry alone.
PutOnly(d, key, value) == [k \in {key} |-> value]

\* d[key] = value on a dict
Put(d, key, value) ==
    [k \in DOMAIN d \cup {key} |-> IF k = key THEN value ELSE d[k]]

-----------------------------------------------------------------------------
(* Pipeline.run *)

\* "finally: if self._tmpdir: shutil.rmtree(self._tmpdir); self._tmpdir = None"
RunFinally ==
    /\ tmpdirs' = IF self_tmpdir THEN tmpdirs \ {RunDir} ELSE tmpdirs
    /\ self_tmpdir' = FALSE

\* run ends: "done" (return output), "cancelled" (PipelineCancelled re-raised)
\* or "failed" (any other exception).
RunEnd(how) ==
    /\ pc' = how
    /\ RunFinally

Terminal == {"done", "cancelled", "failed"}

\* The poll loop of step_generate_videos has jobs to wait for.
Polling == pc \in {"poll_check", "poll_round"} /\ veo_jobs # {}

\* Pipeline.cancel(): self._cancelled.set()
PipelineCancel ==
    /\ cancelled' = TRUE
    /\ cancel_round' = IF Polling /\ ~cancelled THEN poll_round ELSE cancel_round

\* Pipeline.cancel(), from any other thread.
Cancel ==
    /\ pc \notin Terminal
    /\ ~cancelled
    /\ PipelineCancel
    /\ UNCHANGED <<scenes, media_paths, tmpdirs, narration, music,
                   compile_vars, unit_vars, sync_vars, pc, cfg, injected, progress,
                   job_vars, self_tmpdir, ii, vi, routed, veo_jobs, hf_futures,
                   joined, round_todo, done_keys, poll_round,
                   last_poll_round>>

\* Pipeline.inject_scenes(scenes) before run(): any list, the empty one too.
InjectScenes ==
    /\ pc = "idle"
    /\ ~injected
    /\ scenes' \in RunSceneLists \cup {<<>>}
    /\ injected' = TRUE
    /\ UNCHANGED <<media_paths, tmpdirs, narration, music, compile_vars, unit_vars,
                   sync_vars, pc, cancelled, cfg, progress, job_vars,
                   self_tmpdir, ii, vi, routed, veo_jobs, hf_futures, joined,
                   round_todo, done_keys, poll_round, last_poll_round,
                   cancel_round>>

\* run(): "if not self._scenes" chooses between stage 1 and the injected scenes.
RunStart ==
    /\ pc = "idle"
    /\ pc' = IF scenes = <<>> THEN "script" ELSE "sync"
    /\ UNCHANGED <<scenes, media_paths, tmpdirs, narration, music,
                   compile_vars, unit_vars, sync_vars, cancelled, cfg, injected, progress, job_vars, self_tmpdir, ii,
                   vi, routed, veo_jobs, hf_futures, joined, round_todo, done_keys,
                   poll_round, last_poll_round, cancel_round>>

\* _check_cancel() at the head of a stage
CheckCancel(flag) == flag

\* step_generate_script
StepGenerateScript ==
    /\ pc = "script"
    /\ IF CheckCancel(cancelled)
       THEN /\ RunEnd("cancelled")
            /\ UNCHANGED <<scenes>>
       ELSE /\ scenes' \in RunSceneLists
            /\ pc' = "review"
            /\ UNCHANGED <<tmpdirs, self_tmpdir>>
    /\ UNCHANGED <<media_paths, narration, music, compile_vars, unit_vars, sync_vars,
                   cancelled, cfg, injected, progress, job_vars, ii, vi, routed, veo_jobs, hf_futures, joined,
                   round_todo, done_keys, poll_round, last_poll_round,
                   cancel_round>>

\* step_review_story
StepReviewStory ==
    /\ pc = "review"
    /\ IF CheckCancel(cancelled)
       THEN /\ RunEnd("cancelled")
            /\ UNCHANGED scenes
       ELSE /\ IF cfg.hf_token /\ ~cfg.use_placeholders
               THEN scenes' \in ReviewOutcomes(scenes)
               ELSE UNCHANGED scenes
            /\ pc' = "sync"
            /\ UNCHANGED <<tmpdirs, self_tmpdir>>
    /\ UNCHANGED <<media_paths, narration, music, compile_vars, unit_vars,
                   sync_vars, cancelled, cfg, injected, progress, job_vars, ii, vi, routed, veo_jobs, hf_futures,
                   joined, round_todo, done_keys, poll_round, last_poll_round,
                   cancel_round>>

\* run() calls sync_scene_durations_to_narration(self._scenes, ...)
RunSync ==
    /\ pc = "sync"
    /\ \E accepted \in KeywordsAccepted :
          IF accepted
          THEN /\ SyncEnter
               /\ pc' = "syncing"
               /\ UNCHANGED self_tmpdir
          ELSE /\ RunEnd("failed")
               /\ UNCHANGED sync_vars
    /\ UNCHANGED <<scenes, media_paths, narration, music, compile_vars, unit_vars,
                   cancelled, cfg, injected, progress, job_vars, ii, vi, routed, veo_jobs, hf_futures,
                   joined, round_todo, done_keys, poll_round, last_poll_round,
                   cancel_round>>

RunSyncScene ==
    /\ pc = "syncing"
    /\ \E speech_dur \in RunSpeechOutcomes : SyncSceneWith(speech_dur)
    /\ UNCHANGED <<media_paths, narration, music, compile_vars, unit_vars, run_vars>>

RunSyncReturn ==
    /\ pc = "syncing"
    /\ SyncReturn
    /\ pc' = "images"
    /\ UNCHANGED <<media_paths, narration, music, compile_vars, unit_vars, cancelled,
                   cfg, injected, progress, job_vars, self_tmpdir, ii, vi, routed, veo_jobs, hf_futures, joined,
                   round_todo, done_keys, poll_round, last_poll_round,
                   cancel_round>>

\* step_generate_images, up to the loop: mkdtemp(prefix="vidgen_")
StepGenerateImages ==
    /\ pc = "images"
    /\ IF CheckCancel(cancelled)
       THEN /\ RunEnd("cancelled")
            /\ UNCHANGED <<media_paths, ii>>
       ELSE /\ tmpdirs' = tmpdirs \cup {RunDir}
            /\ self_tmpdir' = TRUE
            /\ media_paths' = <<>>
            /\ ii' = 1
            /\ pc' = "images_loop"
    /\ UNCHANGED <<scenes, narration, music, compile_vars, unit_vars, sync_vars,
                   cancelled, cfg, injected, progress, job_vars, vi, routed, veo_jobs, hf_futures, joined,
                   round_todo, done_keys, poll_round, last_poll_round,
                   cancel_round>>

\* step_generate_images, one iteration of the loop: "Scene N failed" is
\* reported in the except clause, before the fallback placeholder is tried.
ImagesScene ==
    /\ pc = "images_loop"
    /\ ii <= Len(scenes)
    /\ IF CheckCancel(cancelled)
       THEN /\ RunEnd("cancelled")
            /\ UNCHANGED <<media_paths, ii, progress>>
       ELSE /\ \E out \in ImageOutcomes :
                 /\ media_paths' = IF out = "none" THEN media_paths
                                   ELSE Put(media_paths, scenes[ii].index, "png")
                 /\ progress' = IF out = "image" THEN progress
                                 ELSE Notify(progress, "image_failed",
                                             scenes[ii].index)
            /\ ii' = ii + 1
            /\ UNCHANGED <<pc, tmpdirs, self_tmpdir>>
    /\ UNCHANGED <<scenes, narration, music, compile_vars, unit_vars, sync_vars,
                   cancelled, cfg, injected, job_vars, vi, routed, veo_jobs, hf_futures, joined,
                   round_todo, done_keys, poll_round, last_poll_round,
                   cancel_round>>

\* run() that goes from the image stage straight to the narration stage.
ImagesReturnSkipsAnimation ==
    /\ pc = "images_loop"
    /\ ii > Len(scenes)
    /\ pc' = "narration"
    /\ ii' = 0
    /\ UNCHANGED <<scenes, media_paths, tmpdirs, narration, music,
                   compile_vars, unit_vars, sync_vars, cancelled, cfg, injected, progress, job_vars, self_tmpdir,
                   vi, routed, veo_jobs, hf_futures, joined, round_todo, done_keys,
                   poll_round, last_poll_round, cancel_round>>

\* step_generate_images returns media_paths; run() calls step_generate_videos
ImagesReturn ==
    /\ pc = "images_loop"
    /\ ii > Len(scenes)
    /\ pc' = "videos"
    /\ ii' = 0
    /\ UNCHANGED <<scenes, media_paths, tmpdirs, narration, music,
                   compile_vars, unit_vars, sync_vars, cancelled, cfg, injected, progress, job_vars, self_tmpdir,
                   vi, routed, veo_jobs, hf_futures, joined, round_todo, done_keys,
                   poll_round, last_poll_round, cancel_round>>

\* step_generate_videos, up to the loop
StepGenerateVideos ==
    /\ pc = "videos"
    /\ IF VideoScenes(scenes) = <<>>
       THEN /\ pc' = "narration"
            /\ UNCHANGED <<tmpdirs, self_tmpdir, vi, routed>>
       ELSE IF CheckCancel(cancelled)
       THEN /\ RunEnd("cancelled")
            /\ UNCHANGED <<vi, routed>>
       ELSE \E import \in ImportOutcomes :
               IF import = "imported"
               THEN /\ vi' = 1
                    /\ UNCHANGED routed
                    /\ pc' = "videos_loop"
                    /\ UNCHANGED <<tmpdirs, self_tmpdir>>
               ELSE /\ RunEnd("failed")
                    /\ UNCHANGED <<vi, routed>>
    /\ UNCHANGED <<scenes, media_paths, narration, music, compile_vars, unit_vars,
                   sync_vars, cancelled, cfg, injected, progress, job_vars, ii, veo_jobs, hf_futures,
                   joined, round_todo, done_keys, poll_round, last_poll_round,
                   cancel_round>>

\* step_generate_videos, one iteration of "for scene in video_scenes"
VideosScene ==
    /\ pc = "videos_loop"
    /\ vi <= Len(VideoScenes(scenes))
    /\ LET idx == VideoScenes(scenes)[vi].index IN
       IF CheckCancel(cancelled)
       THEN /\ RunEnd("cancelled")
            /\ UNCHANGED <<media_paths, vi, routed, veo_jobs, hf_futures, progress>>
       ELSE IF idx \notin DOMAIN media_paths
       THEN /\ vi' = vi + 1
            /\ UNCHANGED <<pc, tmpdirs, self_tmpdir, media_paths, veo_jobs,
                           hf_futures, progress, routed>>
       ELSE IF cfg.use_placeholders \/ AvailableModels(cfg) = {}
       THEN \E ok \in BOOLEAN :
               IF ok
               THEN /\ media_paths' = Put(media_paths, idx, "mp4")
                    /\ vi' = vi + 1
                    /\ UNCHANGED <<pc, tmpdirs, self_tmpdir, veo_jobs,
                                   hf_futures, progress, routed>>
               ELSE /\ RunEnd("failed")
                    /\ UNCHANGED <<media_paths, vi, routed, veo_jobs, hf_futures, progress>>
       ELSE \E answer \in RoutingOutcomes(cfg) :
               LET selected_model == SelectedModel(cfg, answer) IN
               /\ routed' = answer
               /\ IF selected_model = "veo"
                  THEN /\ \E sub \in VeoSubmitOutcomes :
                            /\ veo_jobs' = IF sub = "token"
                                           THEN veo_jobs \cup {idx}
                                           ELSE veo_jobs
                            /\ progress' = IF sub = "token" THEN progress
                                            ELSE Notify(progress,
                                                        "veo_submit_failed", idx)
                       /\ UNCHANGED hf_futures
                  ELSE /\ hf_futures' = Put(hf_futures, idx, "running")
                       /\ UNCHANGED <<veo_jobs, progress>>
               /\ vi' = vi + 1
               /\ UNCHANGED <<pc, tmpdirs, self_tmpdir, media_paths>>
    /\ UNCHANGED <<scenes, narration, music, compile_vars, unit_vars, sync_vars,
                   cancelled, cfg, injected, job_vars, ii, joined, round_todo, done_keys,
                   poll_round, last_poll_round, cancel_round>>

VideosSubmitted ==
    /\ pc = "videos_loop"
    /\ vi > Len(VideoScenes(scenes))
    /\ pc' = "join"
    /\ UNCHANGED <<scenes, media_paths, tmpdirs, narration, music,
                   compile_vars, unit_vars, sync_vars, cancelled, cfg, injected, progress, job_vars, self_tmpdir, ii,
                   vi, routed, veo_jobs, hf_futures, joined, round_todo, done_keys,
                   poll_round, last_poll_round, cancel_round>>

\* A pool thread that stores its own result in the map when it finishes.
HfWorkerFinishWritesMap ==
    /\ \E idx \in DOMAIN hf_futures, out \in HfJobOutcomes :
          /\ hf_futures[idx] = "running"
          /\ hf_futures' = [hf_futures EXCEPT ![idx] = out]
          /\ media_paths' = IF out = "done"
                            THEN Put(media_paths, idx, "mp4") ELSE media_paths
    /\ UNCHANGED <<scenes, tmpdirs, narration, music,
                   compile_vars, unit_vars, sync_vars, pc, cancelled, cfg, injected, progress, job_vars, self_tmpdir,
                   ii, vi, routed, veo_jobs, joined, round_todo, done_keys,
                   poll_round, last_poll_round, cancel_round>>

\* A pool thread finishes run_hf_gen for one scene.
HfWorkerFinish ==
    /\ \E idx \in DOMAIN hf_futures, out \in HfJobOutcomes :
          /\ hf_futures[idx] = "running"
          /\ hf_futures' = [hf_futures EXCEPT ![idx] = out]
    /\ UNCHANGED <<scenes, media_paths, tmpdirs, narration, music,
                   compile_vars, unit_vars, sync_vars, pc, cancelled, cfg, injected, progress, job_vars, self_tmpdir,
                   ii, vi, routed, veo_jobs, joined, round_todo, done_keys,
                   poll_round, last_poll_round, cancel_round>>

\* "for future in as_completed(hf_futures)" that forgets a failed scene: its
\* entry is removed and nothing is reported.
JoinFutureDropsFailed ==
    /\ pc = "join"
    /\ \E idx \in DOMAIN hf_futures \ joined :
          /\ hf_futures[idx] # "running"
          /\ joined' = joined \cup {idx}
          /\ media_paths' = IF hf_futures[idx] = "done"
                            THEN Put(media_paths, idx, "mp4")
                            ELSE [k \in DOMAIN media_paths \ {idx} |->
                                     media_paths[k]]
    /\ UNCHANGED <<scenes, tmpdirs, narration, music, compile_vars, unit_vars,
                   sync_vars, pc, cancelled, cfg, injected, progress,
                   job_vars, self_tmpdir, ii, vi, routed, veo_jobs, hf_futures,
                   round_todo, done_keys, poll_round, last_poll_round,
                   cancel_round>>

\* "for future in as_completed(hf_futures)": one completed future. result()
\* returns and the entry becomes the video, or it re-raises what
\* generate_video raised after its retries and the failure is reported.
JoinFuture ==
    /\ pc = "join"
    /\ \E idx \in DOMAIN hf_futures \ joined :
          /\ hf_futures[idx] # "running"
          /\ joined' = joined \cup {idx}
          /\ media_paths' = IF hf_futures[idx] = "done"
                            THEN Put(media_paths, idx, "mp4") ELSE media_paths
          /\ progress' = IF hf_futures[idx] = "done" THEN progress
                          ELSE Notify(progress, "hf_failed", idx)
    /\ UNCHANGED <<scenes, tmpdirs, narration, music, compile_vars, unit_vars,
                   sync_vars, pc, cancelled, cfg, injected, job_vars,
                   self_tmpdir, ii, vi, routed, veo_jobs, hf_futures, round_todo,
                   done_keys, poll_round, last_poll_round, cancel_round>>

\* The end of the as_completed loop taken before every future has been seen.
JoinDoneEarly ==
    /\ pc = "join"
    /\ pc' = "poll_check"
    /\ UNCHANGED <<scenes, media_paths, tmpdirs, narration, music,
                   compile_vars, unit_vars, sync_vars, cancelled, cfg, injected, progress, job_vars, self_tmpdir, ii,
                   vi, routed, veo_jobs, hf_futures, joined, round_todo, done_keys,
                   poll_round, last_poll_round, cancel_round>>

\* The as_completed loop is over: every future has been seen.
JoinDone ==
    /\ pc = "join"
    /\ joined = DOMAIN hf_futures
    /\ pc' = "poll_check"
    /\ UNCHANGED <<scenes, media_paths, tmpdirs, narration, music,
                   compile_vars, unit_vars, sync_vars, cancelled, cfg, injected, progress, job_vars, self_tmpdir, ii,
                   vi, routed, veo_jobs, hf_futures, joined, round_todo, done_keys,
                   poll_round, last_poll_round, cancel_round>>

\* "while veo_jobs: self._check_cancel()" and, once it is empty,
\* executor.shutdown(wait=True); return media_paths
PollCheckUnchecked ==
    /\ pc = "poll_check"
    /\ IF veo_jobs = {}
       THEN /\ pc' = "narration"
            /\ vi' = 0
            /\ routed' = NoChoice
            /\ hf_futures' = <<>>
            /\ joined' = {}
            /\ done_keys' = {}
            /\ UNCHANGED <<round_todo, poll_round>>
       ELSE /\ poll_round' = poll_round + 1
            /\ round_todo' = JobOrder(scenes, veo_jobs)
            /\ done_keys' = {}
            /\ pc' = "poll_round"
            /\ UNCHANGED <<vi, routed, hf_futures, joined>>
    /\ UNCHANGED <<tmpdirs, self_tmpdir>>
    /\ UNCHANGED <<scenes, media_paths, narration, music, compile_vars, unit_vars,
                   sync_vars, cancelled, cfg, injected, progress, job_vars, ii, veo_jobs, last_poll_round,
                   cancel_round>>

\* "while veo_jobs: self._check_cancel()" starts a round of polls; once
\* veo_jobs is empty: executor.shutdown(wait=True); return media_paths, and
\* the locals of step_generate_videos are gone.
PollCheck ==
    /\ pc = "poll_check"
    /\ IF veo_jobs = {}
       THEN /\ pc' = "narration"
            /\ vi' = 0
            /\ routed' = NoChoice
            /\ hf_futures' = <<>>
            /\ joined' = {}
            /\ done_keys' = {}
            /\ UNCHANGED <<tmpdirs, self_tmpdir, round_todo, poll_round>>
       ELSE IF CheckCancel(cancelled)
       THEN /\ RunEnd("cancelled")
            /\ UNCHANGED <<vi, routed, hf_futures, joined, round_todo, done_keys,
                           poll_round>>
       ELSE /\ poll_round' = poll_round + 1
            /\ round_todo' = JobOrder(scenes, veo_jobs)
            /\ done_keys' = {}
            /\ pc' = "poll_round"
            /\ UNCHANGED <<tmpdirs, self_tmpdir, vi, routed, hf_futures, joined>>
    /\ UNCHANGED <<scenes, media_paths, narration, music, compile_vars, unit_vars,
                   sync_vars, cancelled, cfg, injected, progress, job_vars, ii, veo_jobs, last_poll_round,
                   cancel_round>>

\* The poll iteration whose except branch does not append to done_keys.
PollJobKeepsFailed ==
    /\ pc = "poll_round"
    /\ round_todo # <<>>
    /\ LET idx == Head(round_todo) IN
       \E res \in VeoCheckOutcomes :
          /\ res = "pending" => poll_round < MaxPollRounds
          /\ media_paths' = IF res = "done"
                            THEN Put(media_paths, idx, "mp4") ELSE media_paths
          /\ done_keys' = IF res = "done" THEN done_keys \cup {idx}
                          ELSE done_keys
          /\ progress' = IF res = "failed"
                          THEN Notify(progress, "veo_failed", idx)
                          ELSE progress
    /\ round_todo' = Tail(round_todo)
    /\ last_poll_round' = poll_round
    /\ UNCHANGED <<scenes, tmpdirs, narration, music, compile_vars, unit_vars,
                   sync_vars, pc, cancelled, cfg, injected, job_vars, self_tmpdir, ii, vi, routed,
                   veo_jobs, hf_futures, joined, poll_round, cancel_round>>

\* One iteration of "for idx, (op_name, vid_p) in veo_jobs.items()"
PollJob ==
    /\ pc = "poll_round"
    /\ round_todo # <<>>
    /\ LET idx == Head(round_todo) IN
       \E res \in VeoCheckOutcomes :
          /\ res = "pending" => poll_round < MaxPollRounds
          /\ media_paths' = IF res = "done"
                            THEN Put(media_paths, idx, "mp4") ELSE media_paths
          /\ done_keys' = IF res = "pending" THEN done_keys
                          ELSE done_keys \cup {idx}
          /\ progress' = IF res = "failed"
                          THEN Notify(progress, "veo_failed", idx)
                          ELSE progress
    /\ round_todo' = Tail(round_todo)
    /\ last_poll_round' = poll_round
    /\ UNCHANGED <<scenes, tmpdirs, narration, music, compile_vars, unit_vars,
                   sync_vars, pc, cancelled, cfg, injected, job_vars, self_tmpdir, ii, vi, routed,
                   veo_jobs, hf_futures, joined, poll_round, cancel_round>>

\* "for k in done_keys: del veo_jobs[k]" and "if veo_jobs: time.sleep(5)"
PollRoundEnd ==
    /\ pc = "poll_round"
    /\ round_todo = <<>>
    /\ veo_jobs' = veo_jobs \ done_keys
    /\ pc' = "poll_check"
    /\ UNCHANGED <<scenes, media_paths, tmpdirs, narration, music,
                   compile_vars, unit_vars, sync_vars, cancelled, cfg, injected, progress, job_vars, self_tmpdir, ii,
                   vi, routed, hf_futures, joined, round_todo, done_keys, poll_round,
                   last_poll_round, cancel_round>>

\* step_generate_narration: generate_narration_track makes its own directory
\* with mkdtemp(prefix="vidgen_tts_") and returns or raises without removing it.
StepGenerateNarration ==
    /\ pc = "narration"
    /\ IF CheckCancel(cancelled)
       THEN /\ RunEnd("cancelled")
            /\ UNCHANGED narration
       ELSE /\ IF scenes = <<>>
               THEN UNCHANGED <<narration, tmpdirs>>
               ELSE \E accepted \in KeywordsAccepted, ok \in BOOLEAN :
                       IF accepted
                       THEN /\ tmpdirs' = tmpdirs \cup {TtsDir}
                            /\ narration' = IF ok
                                             THEN NarrationTrackLength(scenes)
                                             ELSE NoTrack
                       ELSE /\ narration' = NoTrack
                            /\ UNCHANGED tmpdirs
            /\ pc' = "music"
            /\ UNCHANGED self_tmpdir
    /\ UNCHANGED <<scenes, media_paths, music, compile_vars, unit_vars, sync_vars,
                   cancelled, cfg, injected, progress, job_vars, ii, vi, routed, veo_jobs, hf_futures, joined,
                   round_todo, done_keys, poll_round, last_poll_round,
                   cancel_round>>

\* step_generate_music: a track (provided, AI or procedural) or None
StepGenerateMusic ==
    /\ pc = "music"
    /\ IF CheckCancel(cancelled)
       THEN /\ RunEnd("cancelled")
            /\ UNCHANGED <<music>>
       ELSE /\ music' \in BOOLEAN
            /\ pc' = "export"
            /\ UNCHANGED <<tmpdirs, self_tmpdir>>
    /\ UNCHANGED <<scenes, media_paths, narration, compile_vars, unit_vars, sync_vars,
                   cancelled, cfg, injected, progress, job_vars, ii, vi, routed, veo_jobs, hf_futures, joined,
                   round_todo, done_keys, poll_round, last_poll_round,
                   cancel_round>>

\* step_export_airtable
StepExportAirtable ==
    /\ pc = "export"
    /\ IF CheckCancel(cancelled)
       THEN /\ RunEnd("cancelled")
       ELSE /\ pc' = "compile"
            /\ UNCHANGED <<tmpdirs, self_tmpdir>>
    /\ UNCHANGED <<scenes, media_paths, narration, music, compile_vars, unit_vars,
                   sync_vars, cancelled, cfg, injected, progress, job_vars, ii, vi, routed, veo_jobs, hf_futures,
                   joined, round_todo, done_keys, poll_round, last_poll_round,
                   cancel_round>>

\* step_compile, up to the call of compile_video
StepCompile ==
    /\ pc = "compile"
    /\ IF CheckCancel(cancelled)
       THEN /\ RunEnd("cancelled")
            /\ UNCHANGED <<compile_vars>>
       ELSE /\ \E ffmpeg_found \in BOOLEAN : CompileEnter(ffmpeg_found)
            /\ pc' = "compiling"
            /\ UNCHANGED self_tmpdir
    /\ UNCHANGED <<scenes, media_paths, narration, music, sync_vars, unit_vars,
                   cancelled, cfg, injected, progress, job_vars, ii, vi, routed, veo_jobs, hf_futures, joined,
                   round_todo, done_keys, poll_round, last_poll_round,
                   cancel_round>>

\* compile_video has returned or raised: run returns the output or fails
StepCompileEnd ==
    /\ pc = "compiling"
    /\ cpc \in {"returned", "raised"}
    /\ RunEnd(IF cpc = "returned" THEN "done" ELSE "failed")
    /\ UNCHANGED <<scenes, media_paths, narration, music, compile_vars, unit_vars,
                   sync_vars, cancelled, cfg, injected, progress, job_vars, ii, vi, routed, veo_jobs, hf_futures,
                   joined, round_todo, done_keys, poll_round, last_poll_round,
                   cancel_round>>

RunInit ==
    /\ scenes = <<>>
    /\ media_paths = <<>>
    /\ tmpdirs = {}
    /\ narration = NoTrack
    /\ music = FALSE
    /\ CompileIdle
    /\ UnitIdle
    /\ SyncIdle
    /\ PipelineNew
    /\ cfg \in Configs
    /\ JobNone

Init == RunInit

Next ==
    \/ Cancel
    \/ InjectScenes
    \/ RunStart
    \/ StepGenerateScript
    \/ StepReviewStory
    \/ RunSync
    \/ RunSyncScene
    \/ RunSyncReturn
    \/ StepGenerateImages
    \/ ImagesScene
    \/ ImagesReturn
    \/ StepGenerateVideos
    \/ VideosScene
    \/ VideosSubmitted
    \/ HfWorkerFinish
    \/ JoinFuture
    \/ JoinDone
    \/ PollCheck
    \/ PollJob
    \/ PollRoundEnd
    \/ StepGenerateNarration
    \/ StepGenerateMusic
    \/ StepExportAirtable
    \/ StepCompile
    \/ CompileSteps
    \/ StepCompileEnd

Spec == Init /\ [][Next]_vars

-----------------------------------------------------------------------------
(* JobManager (webui/backend/job_manager.py): one job running a Pipeline *)

\* Everything but the job record.
engine_vars == <<scenes, media_paths, tmpdirs, narration, music, compile_vars, unit_vars,
                 sync_vars, pc, cancelled, cfg, self_tmpdir, ii, vi, routed, veo_jobs,
                 hf_futures, joined, round_todo, done_keys, poll_round,
                 last_poll_round, cancel_round, injected, progress>>

\* _run_pipeline up to 'job["_pipeline"] = pipeline': it imports
\* PipelineOptions from vidgen.pipeline and passes options= to Pipeline();
\* the listed pipeline.py has neither, so the import raises. With a
\* pipeline.py that has them the Pipeline is made. Both outcomes are kept.
PipelineCreation == {"created", "raise"}

\* JobManager.submit: the job record, and the thread not yet running.
JobSubmitted ==
    /\ job_state = "queued"
    /\ job_status = "none"
    /\ job_pipeline = FALSE

\* The job's thread has not pushed its terminal status message yet.
JobRunning == job_state # "none" /\ job_status = "none"

\* _run_job, from the start of the thread to the Pipeline held by the job.
JobThreadStart ==
    /\ JobRunning
    /\ job_state \in {"queued", "cancelled"}
    /\ ~job_pipeline
    /\ \E made \in PipelineCreation :
          IF made = "created"
          THEN /\ job_state' = "running"
               /\ job_pipeline' = TRUE
               /\ UNCHANGED job_status
          ELSE /\ job_state' = "failed"
               /\ job_status' = "failed"
               /\ UNCHANGED job_pipeline
    /\ UNCHANGED engine_vars

\* JobManager.cancel(job_id)
JobCancel ==
    /\ job_state # "none"
    /\ IF job_pipeline /\ pc \notin Terminal
       THEN PipelineCancel
       ELSE UNCHANGED <<cancelled, cancel_round>>
    /\ job_state' = "cancelled"
    /\ UNCHANGED <<scenes, media_paths, tmpdirs, narration, music,
                   compile_vars, unit_vars, sync_vars, pc, cfg, self_tmpdir, ii, vi, routed,
                   veo_jobs, hf_futures, joined, round_todo, done_keys,
                   poll_round, last_poll_round, injected, progress,
                   job_status, job_pipeline>>

\* _run_pipeline from the Pipeline on: inject_scenes in "manual" and "files"
\* mode, then pipeline.run, on the job's thread and its pool threads.
JobPipelineStep ==
    /\ JobRunning
    /\ job_pipeline
    /\ \/ InjectScenes
       \/ RunStart
       \/ StepGenerateScript
       \/ StepReviewStory
       \/ RunSync
       \/ RunSyncScene
       \/ RunSyncReturn
       \/ StepGenerateImages
       \/ ImagesScene
       \/ ImagesReturn
       \/ StepGenerateVideos
       \/ VideosScene
       \/ VideosSubmitted
       \/ HfWorkerFinish
       \/ JoinFuture
       \/ JoinDone
       \/ PollCheck
       \/ PollJob
       \/ PollRoundEnd
       \/ StepGenerateNarration
       \/ StepGenerateMusic
       \/ StepExportAirtable
       \/ StepCompile
       \/ CompileSteps
       \/ StepCompileEnd

\* _run_job once pipeline.run has returned or raised: PipelineCancelled is a
\* subclass of Exception, so "except Exception" takes it like any failure.
JobFinish ==
    /\ JobRunning
    /\ job_pipeline
    /\ pc \in Terminal
    /\ IF pc = "done"
       THEN /\ job_state' = "done"
            /\ job_status' = "done"
       ELSE /\ job_state' = "failed"
            /\ job_status' = "failed"
    /\ UNCHANGED <<engine_vars, job_pipeline>>

JobInit ==
    /\ scenes = <<>>
    /\ media_paths = <<>>
    /\ tmpdirs = {}
    /\ narration = NoTrack
    /\ music = FALSE
    /\ CompileIdle
    /\ UnitIdle
    /\ SyncIdle
    /\ PipelineNew
    /\ cfg \in Configs
    /\ JobSubmitted

JobNext ==
    \/ JobThreadStart
    \/ JobCancel
    \/ JobPipelineStep
    \/ JobFinish

SpecJob == JobInit /\ [][JobNext]_vars

\* C11: a job whose pipeline was cancelled while running, and ended by
\* PipelineCancelled, is in state 'cancelled' and its terminal status message
\* is not 'failed'.
C11_CancelledJobIsNotFailed ==
    (pc = "cancelled" /\ job_status # "none") =>
        /\ job_state = "cancelled"
        /\ job_status # "failed"

-----------------------------------------------------------------------------
(* Pipeline.run : properties *)

\* The positions at which a stage is about to start.
StageEntries == {"script", "review", "sync", "images", "videos", "narration",
                 "music", "export", "compile"}

\* C8: when Pipeline.run has ended, by return, by failure or by cancellation,
\* none of the temporary directories made during the run exists any more.
C8_NoTempDirAfterRun == pc \in Terminal => tmpdirs = {}

\* C9: a stage that is about to start while the cancellation flag is set
\* ends the run by PipelineCancelled at once; it does not go on to its work
\* nor hand over to the next stage.
C9_EveryStageStopsOnCancel ==
    [][(pc \in StageEntries /\ cancelled /\ pc' # pc) => pc' = "cancelled"]_vars

\* C10: once cancel() has been called while the poll loop had pending jobs, no
\* job is polled in a later round than the one in progress, no later stage
\* starts its work, and the run can only end by PipelineCancelled.
C10_CancelStopsPolling ==
    cancel_round # NoRound =>
        /\ last_poll_round <= cancel_round
        /\ pc \in {"poll_check", "poll_round", "narration", "cancelled"}

\* A run cancelled during its first round of polls, ended by PipelineCancelled
\* with a job still pending.
C10_Witness ==
    /\ cancel_round = 1
    /\ last_poll_round = 1
    /\ veo_jobs # {}
    /\ pc = "cancelled"

\* The positions after step_generate_images has returned, up to the return of
\* run().
AfterImages == {"videos", "videos_loop", "join", "poll_check", "poll_round",
                "narration", "music", "export", "compile", "compiling",
                "done"}

\* The place of each position in the order of the calls in run().
StageRank(p) ==
    CASE p = "idle" -> 0
      [] p = "script" -> 1
      [] p = "review" -> 2
      [] p \in {"sync", "syncing"} -> 3
      [] p \in {"images", "images_loop"} -> 4
      [] p \in {"videos", "videos_loop", "join", "poll_check",
                "poll_round"} -> 5
      [] p = "narration" -> 6
      [] p = "music" -> 7
      [] p = "export" -> 8
      [] p \in {"compile", "compiling"} -> 9
      [] OTHER -> 10

\* C12: a failure of one scene's image generation, animation or clip encode
\* (fallback included) never ends the run: no step of the image loop, of the
\* animation stage or of compile_video's clip loop fails the run.
C12_SceneFailureNeverAborts ==
    [][/\ pc \in {"images_loop", "videos_loop", "join", "poll_round"}
            => pc' # "failed"
       /\ (pc = "compiling" /\ cpc = "clips" /\ ci <= Len(scenes))
            => cpc' # "raised"]_vars

\* C13: a scene whose synchronous animation job failed keeps its still image
\* in media_paths, the failure has been reported on the progress channel, and
\* the animation stage goes on; the run does not fail because of it.
C13_FailedHfJobKeepsStill ==
    /\ \A idx \in joined :
          hf_futures[idx] = "failed" =>
              /\ <<"hf_failed", idx>> \in progress
              /\ pc \in {"join", "poll_check", "poll_round", "cancelled"}
    /\ \A idx \in SceneIndices(scenes) :
          <<"hf_failed", idx>> \in progress =>
              /\ idx \in DOMAIN media_paths
              /\ media_paths[idx] = "png"

\* A run that returned its output although the animation job of a scene failed.
C13_Witness ==
    /\ pc = "done"
    /\ \E idx \in SceneIndices(scenes) :
          /\ <<"hf_failed", idx>> \in progress
          /\ idx \in DOMAIN media_paths
          /\ media_paths[idx] = "png"

\* C14: a stage is entered only from the stage just before it in the order
\* script, review, reconciliation, images, animation, narration, music, export,
\* compile (script and review being left out for injected scenes), so no
\* stage runs twice or out of order; and the animation, narration and music
\* stages are entered with the run's temporary directory in place.
C14_StagesInOrder ==
    [][/\ StageRank(pc') >= StageRank(pc)
       /\ (pc' \in StageEntries /\ pc' # pc) =>
              \/ StageRank(pc') = StageRank(pc) + 1
              \/ pc = "idle" /\ pc' = "sync"
       /\ (pc' \in {"videos", "narration", "music"} /\ pc' # pc) =>
              self_tmpdir' /\ RunDir \in tmpdirs']_vars

C14_Witness ==
    /\ pc = "done"
    /\ ~injected
    /\ \E k \in 1..Len(scenes) :
          /\ scenes[k].index \in DOMAIN media_paths
          /\ media_paths[scenes[k].index] = "mp4"

\* C15 (as claimed): a scene without an entry has been named by a
\* notification at each point that dropped or skipped it; here, at the
\* animation loop's "continue".
C15_EverySkipIsNotified ==
    pc = "videos_loop" =>
        \A k \in 1..(vi - 1) :
            LET idx == VideoScenes(scenes)[k].index
            IN  idx \notin DOMAIN media_paths =>
                   \E kind \in {"veo_submit_failed", "hf_failed", "veo_failed"} :
                       <<kind, idx>> \in progress

\* C15: every key of media_paths is the index of a scene, there are at most
\* as many entries as scenes, every scene the image stage left without an
\* entry has been named by its "failed" notification, and every scene
\* compile_video passed over has been named by its "Skipping" notification.
C15_EntriesAreScenesAndDropsNotified ==
    /\ DOMAIN media_paths \subseteq SceneIndices(scenes)
    /\ Cardinality(DOMAIN media_paths) <= Len(scenes)
    /\ \A k \in 1..Len(scenes) :
          LET idx == scenes[k].index
          IN  idx \notin DOMAIN media_paths =>
                 /\ ((pc = "images_loop" /\ k < ii) \/ pc \in AfterImages)
                        => <<"image_failed", idx>> \in progress
                 /\ (pc = "compiling" /\ cpc # "idle" /\ k < ci)
                        => idx \in skip_notes

C15_Witness ==
    /\ pc = "done"
    /\ \E k \in 1..Len(scenes) :
          /\ scenes[k].index \notin DOMAIN media_paths
          /\ scenes[k].media_type = "video"
          /\ <<"image_failed", scenes[k].index>> \in progress
          /\ scenes[k].index \in skip_notes

\* C18: once inject_scenes has been called, the run never executes script
\* generation or story review.
C18_InjectedRunSkipsScript ==
    injected => pc \notin {"script", "review"}


\* The reconciler has returned to run(), once, and has not been entered again.
ReconciledOnce == sync_pass = 1 /\ spc = "returned"

\* C21: in a run the reconciler is entered at most once, it has returned
\* exactly once before the image stage and every later stage, before it
\* returns there is no media entry and no clip, no step from the image stage
\* on changes any scene's duration, the narration track is built from the
\* scenes' durations and every clip is encoded with its scene's duration.
C21_DurationsFixedAfterReconciler ==
    /\ [](/\ sync_pass <= 1
          /\ StageRank(pc) \in 4..9 => ReconciledOnce
          /\ StageRank(pc) <= 3 =>
                media_paths = <<>> /\ clip_len = <<>> /\ encodes = <<>>
          /\ (StageRank(pc) \in 7..9 /\ narration # NoTrack) =>
                narration = SumSeq(SceneDurations(scenes))
          /\ (pc = "compiling" /\ cpc = "clips" /\ encodes # <<>>) =>
                \A e \in 1..Len(encodes) :
                   encodes[e][2] = scenes[ci - 1].duration)
    /\ [][StageRank(pc) \in 4..9 =>
             SceneDurations(scenes') = SceneDurations(scenes)]_vars

C21_Witness ==
    /\ pc = "compiling"
    /\ cpc = "clips"
    /\ encodes # <<>>
    /\ ReconciledOnce
    /\ narration = SumSeq(SceneDurations(scenes))
    /\ \E k \in 1..Len(scenes) : scenes[k].duration > declared[k]
    /\ encodes[1][2] = scenes[ci - 1].duration
    /\ encodes[1][2] > declared[ci - 1]

\* Once the flag is set, no step submits a job: the loop's _check_cancel()
\* comes before every submission.
CancelStopsSubmission ==
    [][cancelled => /\ veo_jobs' \subseteq veo_jobs
                    /\ DOMAIN hf_futures' \subseteq DOMAIN hf_futures]_vars

\* C24: once cancellation is set no job is submitted, and run() has not
\* unwound as cancelled (temporary directory deleted) while a pool job that
\* was submitted is still executing.
C24_UnwindWaitsForPoolJobs ==
    /\ [][cancelled => /\ veo_jobs' \subseteq veo_jobs
                        /\ DOMAIN hf_futures' \subseteq DOMAIN hf_futures]_vars
    /\ [](pc = "cancelled" =>
             \A idx \in DOMAIN hf_futures : hf_futures[idx] # "running")

\* The scene indices still to be polled in the current round.
ToPoll == {round_todo[k] : k \in 1..Len(round_todo)}

\* C25: when the poll of an asynchronous job raises, the failure is reported
\* and the job is put on the round's removal list in that same step with the
\* scene's entry untouched; from then on the job is not polled again, it is
\* out of the pending set as soon as the round ends and never back in it, and
\* the scene's entry stays the still image.
C25_FailedPollRemovesJob ==
    /\ [][\A idx \in veo_jobs :
            (<<"veo_failed", idx>> \in progress'
               /\ <<"veo_failed", idx>> \notin progress) =>
                  /\ idx \in done_keys'
                  /\ idx \notin done_keys
                  /\ media_paths' = media_paths]_vars
    /\ [](\A k \in 1..Len(scenes) :
            LET idx == scenes[k].index
            IN  <<"veo_failed", idx>> \in progress =>
                   /\ idx \in veo_jobs => (pc = "poll_round" /\ idx \in done_keys)
                   /\ idx \notin ToPoll
                   /\ idx \in DOMAIN media_paths
                   /\ media_paths[idx] = "png")

C25_Witness ==
    /\ pc = "poll_round"
    /\ round_todo # <<>>
    /\ \E idx \in veo_jobs \cap done_keys :
          /\ <<"veo_failed", idx>> \in progress
          /\ idx \in DOMAIN media_paths
          /\ media_paths[idx] = "png"

\* C27: no step changes an entry of MediaPathMap that exists, and none
\* removes one.
C27_EntryWrittenAtMostOnce ==
    [][\A idx \in DOMAIN media_paths :
          /\ idx \in DOMAIN media_paths'
          /\ media_paths'[idx] = media_paths[idx]]_vars

\* C27, as the code has it: no step removes an entry; the image stage writes
\* a scene's entry once (the still or its placeholder); the only step that
\* changes an existing entry is the animation stage replacing a video
\* scene's still by its video, which happens at most once per scene, since a
\* scene is given to one backend only and every animation result arrives
\* while the entry is still the still image.
C27_EntryReplacedOnlyByAnimation ==
    /\ [][\A idx \in DOMAIN media_paths :
            /\ idx \in DOMAIN media_paths'
            /\ media_paths'[idx] # media_paths[idx] =>
                  /\ StageRank(pc) = 5
                  /\ media_paths[idx] = "png"
                  /\ media_paths'[idx] = "mp4"
                  /\ \E k \in 1..Len(scenes) :
                        scenes[k].index = idx /\ scenes[k].media_type = "video"]_vars
    /\ [][\A idx \in (joined' \ joined) \cup (done_keys' \ done_keys) :
            idx \in DOMAIN media_paths /\ media_paths[idx] = "png"]_vars
    /\ [][(pc = "images_loop" /\ ii' = ii + 1) =>
            \A idx \in DOMAIN media_paths' \ DOMAIN media_paths :
               idx = scenes[ii].index /\ media_paths'[idx] = "png"]_vars
    /\ [](veo_jobs \cap DOMAIN hf_futures = {})

C27_Witness ==
    /\ pc = "poll_round"
    /\ \E idx \in done_keys : media_paths[idx] = "mp4"
    /\ \E idx \in DOMAIN media_paths : media_paths[idx] = "png"

\* The local state of the thread that executes run(): its position in run()
\* and in the loops of its stages.
controller_vars == <<pc, ii, vi, joined, round_todo>>

\* C28: every step that writes MediaPathMap is a step of the thread that
\* executes run(), one entry at a time; a pool thread finishing its job, and
\* the thread that calls cancel(), leave the map as it is.
C28_OnlyControllerWritesMap ==
    [][media_paths' # media_paths =>
          /\ hf_futures' = hf_futures
          /\ cancelled' = cancelled
          /\ controller_vars' # controller_vars
          /\ Cardinality({idx \in DOMAIN media_paths' :
                 idx \notin DOMAIN media_paths
                   \/ media_paths'[idx] # media_paths[idx]}) = 1]_vars

C28_Witness ==
    /\ pc = "join"
    /\ \E idx \in joined : media_paths[idx] = "mp4"
    /\ \E idx \in DOMAIN hf_futures \ joined : hf_futures[idx] = "done"

\* C29: a job is only ever given to a backend that is available; every scene
\* the animation loop passes that has an entry, outside test mode and with
\* some backend available, is dispatched in that step to the routing agent's
\* answer when the agent was asked, answered, and named an available
\* backend, and otherwise (not asked, an exception, any other answer) to the
\* first available backend, veo before hf.
C29_DispatchToAvailableBackend ==
    /\ [](/\ veo_jobs # {} => "veo" \in AvailableModels(cfg)
          /\ DOMAIN hf_futures # {} => "hf" \in AvailableModels(cfg)
          /\ \A k \in 1..Len(scenes) :
                <<"veo_submit_failed", scenes[k].index>> \in progress =>
                   "veo" \in AvailableModels(cfg))
    /\ [][(/\ pc = "videos_loop"
           /\ vi' = vi + 1
           /\ VideoScenes(scenes)[vi].index \in DOMAIN media_paths
           /\ ~cfg.use_placeholders
           /\ AvailableModels(cfg) # {}) =>
             LET idx   == VideoScenes(scenes)[vi].index
                 toHf  == idx \in DOMAIN hf_futures' \ DOMAIN hf_futures
                 toVeo == \/ idx \in veo_jobs' \ veo_jobs
                          \/ <<"veo_submit_failed", idx>> \in progress' \ progress
                 first == IF cfg.gemini_api_key THEN "veo" ELSE "hf"
                 want  == IF cfg.hf_token /\ routed' \in {"veo", "hf"}
                             /\ routed' \in AvailableModels(cfg)
                          THEN routed' ELSE first
             IN  /\ cfg.hf_token <=> routed' # NoChoice
                 /\ want \in AvailableModels(cfg)
                 /\ want \in SelectedModels(cfg)
                 /\ toHf <=> want = "hf"
                 /\ toVeo <=> want = "veo"]_vars

C29_Witness ==
    /\ pc = "videos_loop"
    /\ cfg.hf_token
    /\ cfg.gemini_api_key
    /\ routed = "raise"
    /\ veo_jobs # {}
    /\ \E idx \in DOMAIN hf_futures : idx \notin veo_jobs

-----------------------------------------------------------------------------
(* Pipeline.run up to the return of step_generate_videos, with the controller
   thread making progress through the poll loop *)

VideosNext ==
    \/ Cancel
    \/ InjectScenes
    \/ RunStart
    \/ StepGenerateScript
    \/ StepReviewStory
    \/ RunSync
    \/ RunSyncScene
    \/ RunSyncReturn
    \/ StepGenerateImages
    \/ ImagesScene
    \/ ImagesReturn
    \/ StepGenerateVideos
    \/ VideosScene
    \/ VideosSubmitted
    \/ HfWorkerFinish
    \/ JoinFuture
    \/ JoinDone
    \/ PollCheck
    \/ PollJob
    \/ PollRoundEnd

\* The controller thread is never stopped for ever inside the poll loop:
\* check_video_generation_gemini returns or raises, time.sleep(5) ends.
SpecVideos ==
    /\ Init
    /\ [][VideosNext]_vars
    /\ WF_vars(PollCheck)
    /\ WF_vars(PollJob)
    /\ WF_vars(PollRoundEnd)

\* The poll loop is running.
InPollLoop == pc \in {"poll_check", "poll_round"}

\* C26: a step that returns from step_generate_videos normally is taken with
\* no pending asynchronous job and no pool job still executing; and, every
\* asynchronous job reporting done or failed after finitely many polls, the
\* poll loop always comes to an end.
C26_ReturnsWithNothingPending ==
    /\ [][(StageRank(pc) = 5 /\ pc' = "narration") =>
             /\ veo_jobs = {}
             /\ \A idx \in DOMAIN hf_futures : hf_futures[idx] \in HfJobOutcomes]_vars
    /\ (InPollLoop ~> ~InPollLoop)

C26_Witness ==
    /\ pc = "narration"
    /\ poll_round = MaxPollRounds
    /\ \E idx \in DOMAIN media_paths : media_paths[idx] = "mp4"
    /\ \E k \in 1..Len(scenes) : <<"veo_failed", scenes[k].index>> \in progress

-----------------------------------------------------------------------------
(* generate_image called by the image stage, generate_video by a pool job *)

GenCallVideo ==
    /\ GenEnter("generate_video")
    /\ UNCHANGED <<scenes, media_paths, tmpdirs, narration, music,
                   compile_vars, sync_vars, run_vars>>

GenCallImage ==
    /\ GenEnter("generate_image")
    /\ UNCHANGED <<scenes, media_paths, tmpdirs, narration, music,
                   compile_vars, sync_vars, run_vars>>

GenSteps ==
    /\ \/ GenAttempt
       \/ GenSleep
       \/ GenExhausted
       \/ ControllerProgress
    /\ UNCHANGED <<scenes, media_paths, tmpdirs, narration, music,
                   compile_vars, sync_vars, run_vars>>

GenInit ==
    /\ scenes = <<>>
    /\ media_paths = <<>>
    /\ tmpdirs = {}
    /\ narration = NoTrack
    /\ music = FALSE
    /\ CompileIdle
    /\ UnitIdle
    /\ SyncIdle
    /\ RunIdle

GenNext == GenCallVideo \/ GenCallImage \/ GenSteps

SpecGen == GenInit /\ [][GenNext]_vars

\* The calls made so far to one model.
CallsTo(m) == SelectSeq(gen_calls, LAMBDA c : c[1] = m)

\* Each model is called at most MAX_RETRIES times, with attempts 1, 2, ... in
\* order; a call that succeeds is the last one, and the function has then
\* returned; the function raises for exhaustion only after MAX_RETRIES failed
\* calls to every model; and there is one sleep between two attempts on the
\* same model, none after the last.
RetryCapAndImmediateReturn ==
    /\ \A m \in 1..2 :
          /\ Len(CallsTo(m)) <= MAX_RETRIES
          /\ \A k \in 1..Len(CallsTo(m)) : CallsTo(m)[k][2] = k
    /\ \A k \in 1..Len(gen_calls) :
          gen_calls[k][3] = "ok" => (k = Len(gen_calls) /\ gpc = "returned")
    /\ gpc = "returned" => gen_calls[Len(gen_calls)][3] = "ok"
    /\ gen_raised \in {ExhaustedSignal, AllModelsFailedSignal} =>
          \A m \in 1..ModelCount(gen_fn) : Len(CallsTo(m)) = MAX_RETRIES
    /\ gpc \in {"returned", "raised"} =>
          Len(gen_sleeps) = Len(SelectSeq(gen_calls,
                                LAMBDA c : c[3] # "ok" /\ c[2] < MAX_RETRIES
                                           /\ ~(c[3] = "StopIteration"
                                                 /\ gen_fn = "generate_video")))

\* C32: a failed call is retried up to MAX_RETRIES attempts per model and
\* then an error is raised, a success returns at once, and the delays slept
\* between the attempts grow from one to the next.
C32_RetriesWithGrowingDelays ==
    /\ RetryCapAndImmediateReturn
    /\ \A k \in 2..Len(gen_sleeps) : gen_sleeps[k] > gen_sleeps[k - 1]

\* generate_video stops at the first StopIteration: it is its last call, no
\* sleep follows it, and the function has raised.
UnavailableIsNotRetried ==
    \A k \in 1..Len(gen_calls) :
       (gen_fn = "generate_video" /\ gen_calls[k][3] = "StopIteration") =>
          /\ k = Len(gen_calls)
          /\ Len(gen_sleeps) = k - 1
          /\ gpc = "raised"
          /\ gen_raised = UnavailableSignal

C34_SingleProducer ==
    \A k \in 1..Len(cb_log) : cb_log[k][1] = "controller"

-----------------------------------------------------------------------------
(* review_and_refine called by step_review_story *)

ReviewCall ==
    /\ \E max_it \in 1..MAX_REFINE_ITERATIONS : ReviewEnter(max_it)
    /\ UNCHANGED <<scenes, media_paths, tmpdirs, narration, music,
                   compile_vars, sync_vars, run_vars, gen_vars,
                   script_vars>>

ReviewSteps ==
    /\ ReviewStory \/ RefineStory
    /\ UNCHANGED <<scenes, media_paths, tmpdirs, narration, music,
                   compile_vars, sync_vars, run_vars, gen_vars,
                   script_vars>>

ReviewNext == ReviewCall \/ ReviewSteps

SpecReview == GenInit /\ [][ReviewNext]_vars

\* The highest score among the reviews made.
BestScore == Max(0, CHOOSE s \in {reviews[k][2] : k \in 1..Len(reviews)} \cup {0} :
                      \A k \in 1..Len(reviews) : reviews[k][2] <= s)

\* The loop makes at most max_iterations reviews and max_iterations - 1
\* refiner calls, an approved review is the last one and ends the loop, and
\* best_review is the first review that has the highest score.
ReviewLoopBounds ==
    /\ Len(reviews) <= max_iterations
    /\ refiner_calls <= Max(0, max_iterations - 1)
    /\ \A k \in 1..Len(reviews) :
          reviews[k][2] >= APPROVAL_THRESHOLD =>
             k = Len(reviews) /\ rpc = "returned"
    /\ reviews # <<>> =>
          /\ best_review[2] = BestScore
          /\ \E k \in 1..Len(reviews) :
                /\ reviews[k] = best_review
                /\ \A j \in 1..(k - 1) : reviews[j][2] < BestScore
    /\ reviews = <<>> => best_review = NoReview

\* C36: review_and_refine makes at most max_iterations reviews and
\* max_iterations - 1 refiner calls, stops at the first approved review, and
\* the list it returns is the list that got the highest score among the lists
\* reviewed, returned with that review.
C36_ReturnsBestReviewedScenes ==
    /\ ReviewLoopBounds
    /\ (rpc = "returned" /\ reviews # <<>>) =>
          /\ best_review[1] = best_scenes
          /\ \E k \in 1..Len(reviews) :
                reviews[k][1] = best_scenes /\ reviews[k][2] = BestScore

-----------------------------------------------------------------------------
(* step_generate_videos : one dispatch per video scene *)

\* The stage of the run in which step_generate_videos is executing.
InAnimationStage == pc \in {"videos", "videos_loop", "join", "poll_check",
                            "poll_round"}

\* The indices of the scenes of one media type.
IndicesOf(type) ==
    {scenes[k].index : k \in {j \in 1..Len(scenes) : scenes[j].media_type = type}}

-----------------------------------------------------------------------------
(* JobManager : the job's state under cancel() *)

\* The states JobStatus.state documents as final.
JobTerminal == {"done", "failed", "cancelled"}

\* C38: a job state that is done, failed or cancelled never changes again,
\* whatever the interleaving of the job's thread with cancel() calls.
C38_TerminalJobStateIsFinal ==
    [][(job_state \in JobTerminal) => (job_state' = job_state)]_vars

\* C39: a cancel() that arrived before the job's thread made its Pipeline
\* still cancels that Pipeline, so the job does not run to 'done': the
\* Pipeline made for a job in state 'cancelled' has its cancellation flag
\* set, and the thread of such a job does not put it back to 'running'.
C39_EarlyCancelTakesEffect ==
    [][(job_state = "cancelled" /\ ~job_pipeline /\ job_pipeline') =>
          (cancelled' /\ job_state' # "running")]_vars

-----------------------------------------------------------------------------
(* scriptgen : the scene lists produced *)

ScriptCall ==
    /\ scpc = "idle"
    /\ \/ \E t \in 1..Len(Templates) : ScriptEnterGenerate(t)
       \/ \E lines \in SeqsUpTo(StoryLines, MaxLines) : ScriptEnterLines(lines)
       \/ \E lines \in SeqsUpTo(StoryLines, 1) : ScriptEnterFallback(lines)
       \/ \E sections \in SeqsUpTo(StorySections, MaxSections) \ {<<>>} :
             ScriptEnterSections(sections)
    /\ UNCHANGED <<scenes, media_paths, tmpdirs, narration, music,
                   compile_vars, sync_vars, run_vars, gen_vars, review_vars>>

ScriptSteps ==
    /\ ScriptTemplateStep \/ ScriptLineStep \/ ScriptSectionStep
    /\ UNCHANGED <<scenes, media_paths, tmpdirs, narration, music,
                   compile_vars, sync_vars, run_vars, gen_vars, review_vars>>

ScriptNext == ScriptCall \/ ScriptSteps

SpecScript == GenInit /\ [][ScriptNext]_vars

\* C40: the list built by generate_script, parse_user_story or
\* parse_markdown_story, while it is built and when it is returned, has
\* strictly ascending and so unique scene indices, and every scene of a list
\* of the two parsers has a duration of at least 3.0 seconds.
C40_UniqueAscendingIndicesAndMinDuration ==
    /\ \A j, k \in 1..Len(script_out) :
          j < k => script_out[j].index < script_out[k].index
    /\ script_fn \in {"parse_user_story", "parse_markdown_story"} =>
          \A k \in 1..Len(script_out) :
             /\ script_out[k].duration # NaN
             /\ script_out[k].duration >= 30000

\* A parser has returned two scenes, one of them written with a duration
\* under 3 s or not a number.
C40_Witness ==
    /\ scpc = "returned"
    /\ Len(script_out) >= 2
    /\ \/ /\ script_fn = "parse_user_story"
          /\ \E k \in 1..Len(script_in) :
                /\ script_in[k].kind = "scene"
                /\ script_in[k].extras \in {<<"1">>, <<"-5">>, <<"nan">>}
       \/ /\ script_fn = "parse_markdown_story"
          /\ \E k \in 1..Len(script_in) :
                /\ script_in[k].complete
                /\ script_in[k].heading \in {"1s", "nans"}
                /\ script_in[k].field = ""

=============================================================================
